---- MODULE Spec2Model ----
(***************************************************************************)
(* Model of the Fossil Algorithm runtime type-dispatch engines:            *)
(*   fossil_algorithm_sort_exec   (code/logic/sort.c)                      *)
(*   fossil_algorithm_search_exec (code/logic/search.c)                    *)
(* The pointer base is NULL or "arr"; mem is the sequence of element values *)
(* it points at; C index i is TLA+ index i+1.                              *)
(* Numeric elements are their numeric value; a cstr element is a pointer   *)
(* (0 is the null pointer, p > 0 points at StrTab[p]).                     *)
(***************************************************************************)
EXTENDS Integers, Sequences, FiniteSets, TLC

VARIABLES pc, type_id, base, mem, mem0, count, key, keyval, algorithm_id, order_id,
          ret, probes

\* the shuffle engine: the mode and seed arguments, the loop index of the running
\* algorithm, the state of libc's generator (the argument of the last srand, the
\* number of rand calls since, and the values rand has returned so far for each
\* seed and position), whether the running call has read the clock, which of the
\* caller's calls is running and the buffer the first call left
VARIABLES mode_id, seed, loop_i, srand_seed, nrand, drawn, clock, call, out1

shufvars == <<mode_id, seed, loop_i, srand_seed, nrand, drawn, clock, call, out1>>

\* a call of one of the sorts that take a comparator and options: the function
\* called, its cmp argument and its options argument, and the sort that ran
VARIABLES sort_fn, cmp_fn, opts, ran

optvars == <<sort_fn, cmp_fn, opts, ran>>

\* the heap of the process: the allocation sites of sort.c at which malloc or
\* calloc returns a null pointer
VARIABLES nomem

\* the calls made so far of the pure functions of the engines (type_sizeof and
\* type_supported, or the typed comparators), each with the values it returned
VARIABLES queries

\* a running search_interpolation: its locals low, high and the last pos, the
\* number of loop bodies it has completed, and what the build makes of the
\* undefined conversions and subtractions
VARIABLES interp

\* two calls of fossil_algorithm_shuffle_exec made by two threads of the caller,
\* each on a buffer of its own: for each thread where its call is, its
\* arguments, its buffer, its loop index and the buffer the same call left
\* when it ran with no other call beside it
VARIABLES threads

vars == <<pc, type_id, base, mem, mem0, count, key, keyval, algorithm_id, order_id,
          ret, probes, shufvars, optvars, nomem, queries, interp, threads>>

(***************************************************************************)
(* Bounds of the model.                                                    *)
(***************************************************************************)
\* longest buffer whose contents are arbitrary (unsorted included)
MaxCount == 4
\* longest buffer among the additional sorted buffers given to the searches
MaxSorted == 6

\* the null pointer (distinct from the type identifier "null")
NULL == "NULL"

\* 4-byte and 8-byte machine words are modelled at 16 bits (TLC integers are
\* 32-bit): WORD is the modulus of the unsigned word, WORD \div 2 the sign bit
WORD == 65536

(***************************************************************************)
(* Identifiers.                                                            *)
(***************************************************************************)
RecognizedTypeIds ==
    {"i8", "i16", "i32", "i64", "u8", "u16", "u32", "u64", "f32", "f64",
     "cstr", "char", "bool", "hex", "oct", "bin", "size",
     "datetime", "duration", "any", "null"}

TypeIds == RecognizedTypeIds \cup {"notatype", "", NULL}

SignedIds == {"i8", "i16", "i32", "i64", "datetime", "duration"}

SortAlgorithmIds ==
    {NULL, "auto", "quick", "merge", "heap", "insertion", "shell", "bubble",
     "counting", "radix", "notalgo"}

SearchAlgorithmIds ==
    {NULL, "auto", "linear", "binary", "jump", "interpolation",
     "exponential", "fibonacci", "notalgo"}

OrderIds == {NULL, "asc", "desc"}

(***************************************************************************)
(* Element values.                                                         *)
(***************************************************************************)
\* the strings the cstr pointers 1..4 point at: "", "a", "ab", "a"
StrTab == << <<>>, <<97>>, <<97, 98>>, <<97>> >>

ValuesOf(t) ==
    CASE t \in SignedIds        -> {-1, 0, 2}
      [] t \in {"f32", "f64"}   -> {-1, 0, 2}
      [] t = "bool"             -> {0, 1}
      [] t = "cstr"             -> {0, 1, 2, 3}
      [] t = "u8"               -> {0, 1, 255}
      [] t = "u32"              -> {0, 3, WORD - 1}
      [] OTHER                  -> {0, 1, 3}

\* keys: every element value and values below, between and above them
KeysOf(t) ==
    CASE t = "bool"  -> {0, 1}
      [] t = "cstr"  -> {0, 1, 2, 3, 4}
      [] t \in SignedIds \cup {"f32", "f64"} -> {-2, -1, 0, 1, 2, 3}
      [] t = "u8"    -> {0, 1, 2, 254, 255}
      [] t = "u32"   -> {0, 1, 3, 4, WORD - 1}
      [] OTHER       -> {0, 1, 2, 3, 4}

B2I(b) == IF b THEN 1 ELSE 0

Min(a, b) == IF a < b THEN a ELSE b

\* a[i] of the C array held in the sequence s
At(s, i) == s[i + 1]

\* a[i] = v
Put(s, i, v) == [s EXCEPT ![i + 1] = v]

\* exchange of a[i] and a[j] through a temporary
Swap(s, i, j) == [s EXCEPT ![i + 1] = s[j + 1], ![j + 1] = s[i + 1]]

\* the string a cstr element points at; a null pointer is read as ""
StrOf(p) == IF p = 0 THEN <<>> ELSE StrTab[p]

RECURSIVE strcmp(_, _)
\* libc strcmp: difference of the first pair of differing bytes (0 terminates)
strcmp(sa, sb) ==
    IF sa = <<>> /\ sb = <<>> THEN 0
    ELSE IF sa = <<>> THEN 0 - Head(sb)
    ELSE IF sb = <<>> THEN Head(sa)
    ELSE IF Head(sa) # Head(sb) THEN Head(sa) - Head(sb)
    ELSE strcmp(Tail(sa), Tail(sb))

(***************************************************************************)
(* sort.c: typed comparators                                               *)
(***************************************************************************)
\* compare_i8, compare_i16, compare_i32, compare_i64
sort_compare_signed(va, vb, desc) ==
    IF desc THEN B2I(vb > va) - B2I(vb < va) ELSE B2I(va > vb) - B2I(va < vb)

\* compare_u8 .. compare_u64, compare_hex, compare_oct, compare_bin
sort_compare_unsigned(va, vb, desc) ==
    IF desc THEN B2I(vb > va) - B2I(vb < va) ELSE B2I(va > vb) - B2I(va < vb)

\* compare_f32, compare_f64 (no NaN among the values)
sort_compare_float(va, vb, desc) ==
    IF va < vb THEN (IF desc THEN 1 ELSE -1)
    ELSE IF va > vb THEN (IF desc THEN -1 ELSE 1)
    ELSE 0

sort_compare_cstr(a, b, desc) ==
    LET cmp == strcmp(StrOf(a), StrOf(b)) IN IF desc THEN 0 - cmp ELSE cmp

sort_compare_char(va, vb, desc) ==
    IF va = vb THEN 0
    ELSE IF desc THEN B2I(vb > va) - B2I(vb < va) ELSE B2I(va > vb) - B2I(va < vb)

\* compare_bool looking at va in both directions
sort_compare_bool_desc_by_a(va, vb, desc) ==
    IF va = vb THEN 0
    ELSE IF desc THEN (IF va # 0 THEN 1 ELSE -1) ELSE (IF va # 0 THEN 1 ELSE -1)

sort_compare_bool(va, vb, desc) ==
    IF va = vb THEN 0
    ELSE IF desc THEN (IF vb # 0 THEN 1 ELSE -1) ELSE (IF va # 0 THEN 1 ELSE -1)

sort_compare_size(va, vb, desc) ==
    IF desc THEN B2I(vb > va) - B2I(vb < va) ELSE B2I(va > vb) - B2I(va < vb)

\* compare_datetime, compare_duration
sort_compare_datetime(va, vb, desc) ==
    IF desc THEN B2I(vb > va) - B2I(vb < va) ELSE B2I(va > vb) - B2I(va < vb)

\* sizeof of the element type, 0 when the identifier has no fixed width
fossil_algorithm_sort_type_sizeof(t) ==
    CASE t = NULL -> 0
      [] t \in {"i8", "u8", "bool", "char"} -> 1
      [] t \in {"i16", "u16"} -> 2
      [] t \in {"i32", "u32", "f32"} -> 4
      [] t \in {"i64", "u64", "f64", "cstr", "size", "hex", "oct", "bin",
                "datetime", "duration"} -> 8
      [] OTHER -> 0

fossil_algorithm_sort_type_supported(t) == fossil_algorithm_sort_type_sizeof(t) # 0

\* the comparator, named by the C function, or NULL
fossil_sort_select_comparator(t) ==
    IF t \in {"i8", "i16", "i32", "i64", "u8", "u16", "u32", "u64", "hex", "oct",
              "bin", "f32", "f64", "bool", "char", "cstr", "size", "datetime",
              "duration"}
    THEN "compare_" \o t ELSE NULL

\* cmp(a, b, desc) through the function pointer cmp
SortCall(cmp, a, b, desc) ==
    CASE cmp \in {"compare_i8", "compare_i16", "compare_i32", "compare_i64"} ->
             sort_compare_signed(a, b, desc)
      [] cmp \in {"compare_u8", "compare_u16", "compare_u32", "compare_u64",
                  "compare_hex", "compare_oct", "compare_bin"} ->
             sort_compare_unsigned(a, b, desc)
      [] cmp \in {"compare_f32", "compare_f64"} -> sort_compare_float(a, b, desc)
      [] cmp = "compare_cstr" -> sort_compare_cstr(a, b, desc)
      [] cmp = "compare_char" -> sort_compare_char(a, b, desc)
      [] cmp = "compare_bool" -> sort_compare_bool(a, b, desc)
      [] cmp = "compare_size" -> sort_compare_size(a, b, desc)
      [] cmp \in {"compare_datetime", "compare_duration"} ->
             sort_compare_datetime(a, b, desc)

(***************************************************************************)
(* sort.c: the algorithms behind fossil_algorithm_sort_exec                *)
(***************************************************************************)
\* malloc(...) / calloc(...) at the named allocation site: a pointer or NULL
malloc(site) == IF site \in nomem THEN NULL ELSE site

RECURSIVE fossil_merge_loop(_, _, _, _, _)
\* the three copy loops of fossil_merge: out is base[left .. k-1] so far
fossil_merge_loop(L, R, out, cmp, desc) ==
    IF L # <<>> /\ R # <<>>
    THEN IF SortCall(cmp, Head(L), Head(R), desc) <= 0
         THEN fossil_merge_loop(Tail(L), R, Append(out, Head(L)), cmp, desc)
         ELSE fossil_merge_loop(L, Tail(R), Append(out, Head(R)), cmp, desc)
    ELSE out \o L \o R

\* merges base[left..mid] and base[mid+1..right] through the scratch copies L, R
\* if (!L || !R) { free(L); free(R); return; }
fossil_merge(b, left, mid, right, cmp, desc) ==
    IF malloc("merge.L") = NULL \/ malloc("merge.R") = NULL THEN b
    ELSE LET L == SubSeq(b, left + 1, mid + 1)
             R == SubSeq(b, mid + 2, right + 1)
         IN  SubSeq(b, 1, left) \o fossil_merge_loop(L, R, <<>>, cmp, desc)
                 \o SubSeq(b, right + 2, Len(b))

RECURSIVE fossil_merge_sort_rec(_, _, _, _, _)
fossil_merge_sort_rec(b, left, right, cmp, desc) ==
    IF left < right
    THEN LET mid == left + (right - left) \div 2
             b1  == fossil_merge_sort_rec(b, left, mid, cmp, desc)
             b2  == fossil_merge_sort_rec(b1, mid + 1, right, cmp, desc)
         IN  fossil_merge(b2, left, mid, right, cmp, desc)
    ELSE b

fossil_sort_merge_stub(bp, b, n, type_size, cmp, desc) ==
    IF bp = NULL \/ n < 2 \/ cmp = NULL \/ type_size = 0
    THEN [ret |-> -10, mem |-> b]
    ELSE [ret |-> 0, mem |-> fossil_merge_sort_rec(b, 0, n - 1, cmp, desc)]

RECURSIVE fossil_heapify_right_vs_root(_, _, _, _, _)
\* fossil_heapify with the right child compared against the root, not the largest
fossil_heapify_right_vs_root(b, n, root, cmp, desc) ==
    LET left  == 2 * root + 1
        right == 2 * root + 2
        l1 == IF left < n /\ SortCall(cmp, At(b, left), At(b, root), desc) > 0
              THEN left ELSE root
        largest == IF right < n /\ SortCall(cmp, At(b, right), At(b, root), desc) > 0
                   THEN right ELSE l1
    IN  IF largest # root
        THEN fossil_heapify_right_vs_root(Swap(b, root, largest), n, largest, cmp, desc)
        ELSE b

RECURSIVE fossil_heapify(_, _, _, _, _)
\* char *tmp = malloc(type_size); if (!tmp) return;
fossil_heapify(b, n, root, cmp, desc) ==
    LET left  == 2 * root + 1
        right == 2 * root + 2
        l1 == IF left < n /\ SortCall(cmp, At(b, left), At(b, root), desc) > 0
              THEN left ELSE root
        largest == IF right < n /\ SortCall(cmp, At(b, right), At(b, l1), desc) > 0
                   THEN right ELSE l1
    IN  IF malloc("heapify.tmp") = NULL THEN b
        ELSE IF largest # root
        THEN fossil_heapify(Swap(b, root, largest), n, largest, cmp, desc)
        ELSE b

RECURSIVE fossil_heap_build(_, _, _, _, _)
\* for (long i = count / 2 - 1; i >= 0; --i) fossil_heapify(arr, count, i, ...)
fossil_heap_build(b, n, i, cmp, desc) ==
    IF i >= 0
    THEN fossil_heap_build(fossil_heapify(b, n, i, cmp, desc), n, i - 1, cmp, desc)
    ELSE b

RECURSIVE fossil_heap_extract(_, _, _, _)
\* for (size_t i = count - 1; i > 0; --i) { swap arr[0], arr[i]; heapify(arr, i, 0) }
fossil_heap_extract(b, i, cmp, desc) ==
    IF i > 0
    THEN fossil_heap_extract(fossil_heapify(Swap(b, 0, i), i, 0, cmp, desc),
                             i - 1, cmp, desc)
    ELSE b

fossil_sort_heap_stub(bp, b, n, type_size, cmp, desc) ==
    IF bp = NULL \/ n < 2 \/ cmp = NULL \/ type_size = 0
    THEN [ret |-> -11, mem |-> b]
    ELSE LET heap == fossil_heap_build(b, n, n \div 2 - 1, cmp, desc)
         IN  IF malloc("heap.tmp") = NULL THEN [ret |-> -11, mem |-> heap]
             ELSE [ret |-> 0, mem |-> fossil_heap_extract(heap, n - 1, cmp, desc)]

RECURSIVE fossil_insertion_shift(_, _, _, _, _)
\* while (j > 0 && cmp(arr[j-1], tmp) > 0) { arr[j] = arr[j-1]; --j; } arr[j] = tmp
fossil_insertion_shift(arr, j, tmp, cmp, desc) ==
    IF j > 0 /\ SortCall(cmp, At(arr, j - 1), tmp, desc) > 0
    THEN fossil_insertion_shift(Put(arr, j, At(arr, j - 1)), j - 1, tmp, cmp, desc)
    ELSE Put(arr, j, tmp)

RECURSIVE fossil_insertion_outer(_, _, _, _, _)
fossil_insertion_outer(arr, i, n, cmp, desc) ==
    IF i < n
    THEN fossil_insertion_outer(
             fossil_insertion_shift(arr, i, At(arr, i), cmp, desc),
             i + 1, n, cmp, desc)
    ELSE arr

fossil_sort_insertion_stub(bp, b, n, type_size, cmp, desc) ==
    IF bp = NULL \/ n < 2 \/ cmp = NULL \/ type_size = 0
    THEN [ret |-> -12, mem |-> b]
    ELSE IF malloc("insertion.tmp") = NULL THEN [ret |-> -12, mem |-> b]
    ELSE [ret |-> 0, mem |-> fossil_insertion_outer(b, 1, n, cmp, desc)]

RECURSIVE fossil_shell_shift(_, _, _, _, _, _)
\* while (j >= gap && cmp(arr[j-gap], tmp) > 0) { arr[j] = arr[j-gap]; j -= gap; }
fossil_shell_shift(arr, j, gap, tmp, cmp, desc) ==
    IF j >= gap /\ SortCall(cmp, At(arr, j - gap), tmp, desc) > 0
    THEN fossil_shell_shift(Put(arr, j, At(arr, j - gap)), j - gap, gap, tmp, cmp, desc)
    ELSE Put(arr, j, tmp)

RECURSIVE fossil_shell_pass(_, _, _, _, _, _)
\* for (size_t i = gap; i < count; ++i)
fossil_shell_pass(arr, i, gap, n, cmp, desc) ==
    IF i < n
    THEN fossil_shell_pass(
             fossil_shell_shift(arr, i, gap, At(arr, i), cmp, desc),
             i + 1, gap, n, cmp, desc)
    ELSE arr

RECURSIVE fossil_shell_gaps(_, _, _, _, _)
\* for (size_t gap = count / 2; gap > 0; gap /= 2)
fossil_shell_gaps(arr, gap, n, cmp, desc) ==
    IF gap > 0
    THEN fossil_shell_gaps(fossil_shell_pass(arr, gap, gap, n, cmp, desc),
                           gap \div 2, n, cmp, desc)
    ELSE arr

fossil_sort_shell_stub(bp, b, n, type_size, cmp, desc) ==
    IF bp = NULL \/ n < 2 \/ cmp = NULL \/ type_size = 0
    THEN [ret |-> -13, mem |-> b]
    ELSE IF malloc("shell.tmp") = NULL THEN [ret |-> -13, mem |-> b]
    ELSE [ret |-> 0, mem |-> fossil_shell_gaps(b, n \div 2, n, cmp, desc)]

RECURSIVE fossil_bubble_loops(_, _, _, _, _, _)
\* for (i = 0; i < count - 1; ++i) for (j = 0; j < count - i - 1; ++j) ...
fossil_bubble_loops(arr, i, j, n, cmp, desc) ==
    IF ~(i < n - 1) THEN arr
    ELSE IF ~(j < n - i - 1) THEN fossil_bubble_loops(arr, i + 1, 0, n, cmp, desc)
    ELSE IF SortCall(cmp, At(arr, j), At(arr, j + 1), desc) > 0
         THEN fossil_bubble_loops(Swap(arr, j, j + 1), i, j + 1, n, cmp, desc)
         ELSE fossil_bubble_loops(arr, i, j + 1, n, cmp, desc)

fossil_sort_bubble_stub(bp, b, n, type_size, cmp, desc) ==
    IF bp = NULL \/ n < 2 \/ cmp = NULL \/ type_size = 0
    THEN [ret |-> -14, mem |-> b]
    ELSE IF malloc("bubble.tmp") = NULL THEN [ret |-> -14, mem |-> b]
    ELSE [ret |-> 0, mem |-> fossil_bubble_loops(b, 0, 0, n, cmp, desc)]

(***************************************************************************)
(* Raw views of an element: counting sort reads the buffer as uint8_t,     *)
(* radix sort as uint32_t, interpolation search as int32_t or int64_t.     *)
(***************************************************************************)
\* the upper 16 bits of the IEEE-754 single of value v
F32Bits(v) ==
    CASE v = -2 -> 49152 [] v = -1 -> 49024 [] v = 0 -> 0
      [] v = 1 -> 16256  [] v = 2 -> 16384  [] v = 3 -> 16448

\* the upper 16 bits of the IEEE-754 double of value v
F64Bits(v) ==
    CASE v = -2 -> 49152 [] v = -1 -> 49136 [] v = 0 -> 0
      [] v = 1 -> 16368  [] v = 2 -> 16384  [] v = 3 -> 16392

\* the element read through a uint8_t pointer
ToU8(t, v) == v % 256

\* the byte u read back as an element of type t
FromU8(t, u) == IF t = "i8" /\ u >= 128 THEN u - 256 ELSE u

\* the element read through a uint32_t pointer
ToU32(t, v) == IF t = "f32" THEN F32Bits(v) ELSE v % WORD

\* the word u read back as an element of type t
FromU32(t, u) ==
    CASE t = "f32" -> CHOOSE v \in -2 .. 3 : F32Bits(v) = u
      [] t = "i32" -> IF u >= WORD \div 2 THEN u - WORD ELSE u
      [] OTHER     -> u

SeqMax(s) == CHOOSE m \in {s[i] : i \in DOMAIN s} : \A i \in DOMAIN s : s[i] <= m

SeqMin(s) == CHOOSE m \in {s[i] : i \in DOMAIN s} : \A i \in DOMAIN s : m <= s[i]

RECURSIVE Repeat(_, _)
\* k copies of v
Repeat(v, k) == IF k = 0 THEN <<>> ELSE <<v>> \o Repeat(v, k - 1)

RECURSIVE fossil_counting_fill_asc(_, _, _, _)
\* for (i = 0; i < range; ++i) for (j = 0; j < count_arr[i]; ++j) arr[idx++] = i + min
\* (the iterations over empty count_arr[i] write nothing and are passed over at once)
fossil_counting_fill_asc(count_arr, i, range, min) ==
    LET rest == {k \in i .. range - 1 : count_arr[k] > 0}
    IN  IF rest = {} THEN <<>>
        ELSE LET k == CHOOSE x \in rest : \A y \in rest : x <= y
             IN  Repeat(k + min, count_arr[k])
                     \o fossil_counting_fill_asc(count_arr, k + 1, range, min)

\* the descending fill walking the buckets upward
fossil_counting_fill_desc_upward(count_arr, i, min) ==
    fossil_counting_fill_asc(count_arr, 0, i, min)

RECURSIVE fossil_counting_fill_desc(_, _, _)
\* for (i = range; i-- > 0;) for (j = 0; j < count_arr[i]; ++j) arr[idx++] = i + min
fossil_counting_fill_desc(count_arr, i, min) ==
    LET rest == {k \in 0 .. i - 1 : count_arr[k] > 0}
    IN  IF rest = {} THEN <<>>
        ELSE LET k == CHOOSE x \in rest : \A y \in rest : x >= y
             IN  Repeat(k + min, count_arr[k])
                     \o fossil_counting_fill_desc(count_arr, k, min)

\* a counting stub that falls back to insertion sort on a width it does not handle
fossil_sort_counting_stub_fallback(bp, b, n, type_size, cmp, desc, t) ==
    IF bp = NULL \/ n < 2 \/ cmp = NULL THEN [ret |-> -15, mem |-> b]
    ELSE IF type_size # 1
    THEN [ret |-> 0, mem |-> fossil_sort_insertion_stub(bp, b, n, type_size, cmp, desc).mem]
    ELSE [ret |-> 0,
          mem |-> LET arr == [i \in 1 .. n |-> ToU8(t, b[i])]
                      min == SeqMin(arr)
                      range == SeqMax(arr) - min + 1
                      count_arr == [i \in 0 .. range - 1 |->
                                       Cardinality({j \in 1 .. n : arr[j] - min = i})]
                      out == IF ~desc THEN fossil_counting_fill_asc(count_arr, 0, range, min)
                             ELSE fossil_counting_fill_desc(count_arr, range, min)
                  IN  [i \in 1 .. n |-> FromU8(t, out[i])] \o SubSeq(b, n + 1, Len(b))]

\* uint8_t *arr = (uint8_t *)base: t is the type of the elements the caller put
\* in the buffer, which the cast reads as bytes
fossil_sort_counting_stub(bp, b, n, type_size, cmp, desc, t) ==
    IF bp = NULL \/ n < 2 \/ cmp = NULL \/ type_size # 1
    THEN [ret |-> -15, mem |-> b]
    ELSE IF malloc("counting.count_arr") = NULL THEN [ret |-> -15, mem |-> b]
    ELSE LET arr == [i \in 1 .. n |-> ToU8(t, b[i])]
             max == SeqMax(arr)
             min == SeqMin(arr)
             range == max - min + 1
             count_arr == [i \in 0 .. range - 1 |->
                              Cardinality({j \in 1 .. n : arr[j] - min = i})]
             out == IF ~desc THEN fossil_counting_fill_asc(count_arr, 0, range, min)
                    ELSE fossil_counting_fill_desc(count_arr, range, min)
         IN  [ret |-> 0,
              mem |-> [i \in 1 .. n |-> FromU8(t, out[i])] \o SubSeq(b, n + 1, Len(b))]

RECURSIVE fossil_radix_place(_, _, _, _, _)
\* for (i = count; i-- > 0;) output[--bucket[digit(arr[i])]] = arr[i]
fossil_radix_place(arr, exp, i, bucket, output) ==
    IF i > 0
    THEN LET idx == (At(arr, i - 1) \div exp) % 10
             bk  == [bucket EXCEPT ![idx] = bucket[idx] - 1]
         IN  fossil_radix_place(arr, exp, i - 1, bk, Put(output, bk[idx], At(arr, i - 1)))
    ELSE output

\* one pass of the radix loop body for the decimal weight exp
fossil_radix_pass(arr, exp, n) ==
    LET bucket0 == [d \in 0 .. 9 |->
                       Cardinality({i \in 1 .. n : (arr[i] \div exp) % 10 = d})]
        bucket  == [d \in 0 .. 9 |->
                       Cardinality({i \in 1 .. n : (arr[i] \div exp) % 10 <= d})]
    IN  fossil_radix_place(arr, exp, n, bucket, arr)

RECURSIVE fossil_radix_loop(_, _, _, _)
\* for (uint32_t exp = 1; max / exp > 0; exp *= 10); a zero exp traps on max / exp
fossil_radix_loop(arr, max, exp, n) ==
    IF exp = 0 THEN [trap |-> TRUE, arr |-> arr]
    ELSE IF max \div exp > 0
    THEN LET output == fossil_radix_pass(arr, exp, n)
         IN  \* memcpy(arr, output, ...): the pass is complete before the next begins
             IF output = arr
             THEN fossil_radix_loop(arr, max, (exp * 10) % WORD, n)
             ELSE fossil_radix_loop(output, max, (exp * 10) % WORD, n)
    ELSE [trap |-> FALSE, arr |-> arr]

RECURSIVE Reverse(_)
Reverse(s) == IF s = <<>> THEN <<>> ELSE Append(Reverse(Tail(s)), Head(s))

\* the status of a call that never returns: max / exp with exp == 0 raises SIGFPE
SIGFPE == -136

\* uint32_t *arr = (uint32_t *)base: t is the type of the elements the caller put
\* in the buffer, which the cast reads as 32-bit words
fossil_sort_radix_stub(bp, b, n, type_size, cmp, desc, t) ==
    IF bp = NULL \/ n < 2 \/ cmp = NULL \/ type_size # 4
    THEN [ret |-> -16, mem |-> b]
    ELSE IF malloc("radix.output") = NULL THEN [ret |-> -16, mem |-> b]
    ELSE LET arr == [i \in 1 .. n |-> ToU32(t, b[i])]
             r   == fossil_radix_loop(arr, SeqMax(arr), 1, n)
             out == IF desc /\ ~r.trap THEN Reverse(r.arr) ELSE r.arr
         IN  [ret |-> IF r.trap THEN SIGFPE ELSE 0,
              mem |-> [i \in 1 .. n |-> FromU32(t, out[i])] \o SubSeq(b, n + 1, Len(b))]

\* cmp(a, b, ctx->desc): the adapter handed to qsort_r
fossil_sort_qsort_adapter(a, b, cmp, desc) == SortCall(cmp, a, b, desc)

\* libc qsort_r: every arrangement of the n elements that is in order under the
\* adapter (the order of elements that compare equal is unspecified)
qsort_r(b, n, cmp, desc) ==
    {out \in {[i \in 1 .. n |-> b[p[i]]] : p \in Permutations(1 .. n)} :
        \A i \in 1 .. n - 1 : fossil_sort_qsort_adapter(out[i], out[i + 1], cmp, desc) <= 0}

\* the set of outcomes: one per result qsort_r may produce
fossil_sort_qsort_stub(bp, b, n, type_size, cmp, desc) ==
    IF bp = NULL \/ n < 2 \/ cmp = NULL \/ type_size = 0
    THEN {[ret |-> -17, mem |-> b]}
    ELSE {[ret |-> 0, mem |-> out \o SubSeq(b, n + 1, Len(b))] :
              out \in qsort_r(b, n, cmp, desc)}

\* fossil_algorithm_sort_exec with the algorithm identifier resolved before the type
fossil_algorithm_sort_exec_alg_first(bp, b, n, t, alg, ord) ==
    IF bp = NULL \/ n = 0 \/ t = NULL THEN {[ret |-> -1, mem |-> b]}
    ELSE IF alg \notin {NULL, "auto", "quick", "merge", "heap", "insertion", "shell",
                        "bubble", "counting", "radix"}
         THEN {[ret |-> -3, mem |-> b]}
    ELSE IF fossil_algorithm_sort_type_sizeof(t) = 0
              \/ fossil_sort_select_comparator(t) = NULL
         THEN {[ret |-> -2, mem |-> b]}
    ELSE {fossil_sort_merge_stub(bp, b, n, fossil_algorithm_sort_type_sizeof(t),
                                 fossil_sort_select_comparator(t), ord = "desc")}

\* the set of outcomes [ret, mem] of fossil_algorithm_sort_exec
fossil_algorithm_sort_exec(bp, b, n, t, alg, ord) ==
    IF bp = NULL \/ n = 0 \/ t = NULL THEN {[ret |-> -1, mem |-> b]}
    ELSE LET desc == (ord # NULL /\ ord = "desc")
             type_size == fossil_algorithm_sort_type_sizeof(t)
             cmp == fossil_sort_select_comparator(t)
         IN  IF type_size = 0 THEN {[ret |-> -2, mem |-> b]}
             ELSE IF cmp = NULL THEN {[ret |-> -2, mem |-> b]}
             ELSE IF alg = NULL \/ alg = "auto" \/ alg = "quick"
                  THEN fossil_sort_qsort_stub(bp, b, n, type_size, cmp, desc)
             ELSE IF alg = "merge"
                  THEN {fossil_sort_merge_stub(bp, b, n, type_size, cmp, desc)}
             ELSE IF alg = "heap"
                  THEN {fossil_sort_heap_stub(bp, b, n, type_size, cmp, desc)}
             ELSE IF alg = "insertion"
                  THEN {fossil_sort_insertion_stub(bp, b, n, type_size, cmp, desc)}
             ELSE IF alg = "shell"
                  THEN {fossil_sort_shell_stub(bp, b, n, type_size, cmp, desc)}
             ELSE IF alg = "bubble"
                  THEN {fossil_sort_bubble_stub(bp, b, n, type_size, cmp, desc)}
             ELSE IF alg = "counting"
                  THEN {fossil_sort_counting_stub(bp, b, n, type_size, cmp, desc, t)}
             ELSE IF alg = "radix"
                  THEN {fossil_sort_radix_stub(bp, b, n, type_size, cmp, desc, t)}
             ELSE {[ret |-> -3, mem |-> b]}

(***************************************************************************)
(* search.c: typed comparators and type registry                           *)
(***************************************************************************)
\* compare_i8, compare_i16, compare_i32, compare_i64
search_compare_signed(va, vb, desc) ==
    IF desc THEN B2I(vb > va) - B2I(vb < va) ELSE B2I(va > vb) - B2I(va < vb)

\* compare_u8, compare_u16, compare_u32, compare_u64
search_compare_unsigned(va, vb, desc) ==
    IF desc THEN B2I(vb > va) - B2I(vb < va) ELSE B2I(va > vb) - B2I(va < vb)

\* compare_f32, compare_f64 (no NaN among the values)
search_compare_float(va, vb, desc) ==
    IF va < vb THEN (IF desc THEN 1 ELSE -1)
    ELSE IF va > vb THEN (IF desc THEN -1 ELSE 1)
    ELSE 0

search_compare_char(va, vb, desc) ==
    IF desc THEN B2I(vb > va) - B2I(vb < va) ELSE B2I(va > vb) - B2I(va < vb)

search_compare_cstr(a, b, desc) ==
    LET cmp == strcmp(StrOf(a), StrOf(b)) IN IF desc THEN 0 - cmp ELSE cmp

search_compare_bool(va, vb, desc) ==
    IF desc THEN B2I(vb > va) - B2I(vb < va) ELSE B2I(va > vb) - B2I(va < vb)

search_compare_size(va, vb, desc) ==
    IF desc THEN B2I(vb > va) - B2I(vb < va) ELSE B2I(va > vb) - B2I(va < vb)

\* a type_sizeof that does not know the identifier size
fossil_algorithm_search_type_sizeof_no_size(t) ==
    CASE t = NULL -> 0
      [] t \in {"i8", "u8", "bool", "char"} -> 1
      [] t \in {"i16", "u16"} -> 2
      [] t \in {"i32", "u32", "f32"} -> 4
      [] t \in {"i64", "u64", "f64", "cstr", "hex", "oct", "bin"} -> 8
      [] OTHER -> 0

fossil_algorithm_search_type_sizeof(t) ==
    CASE t = NULL -> 0
      [] t \in {"i8", "u8", "bool", "char"} -> 1
      [] t \in {"i16", "u16"} -> 2
      [] t \in {"i32", "u32", "f32"} -> 4
      [] t \in {"i64", "u64", "f64", "cstr", "hex", "oct", "bin", "size"} -> 8
      [] t \in {"datetime", "duration", "any", "null"} -> 0
      [] OTHER -> 0

fossil_algorithm_search_type_supported(t) == fossil_algorithm_search_type_sizeof(t) # 0

\* the comparator, named by the C function, or NULL
fossil_search_select_comparator(t) ==
    IF t \in {"i8", "i16", "i32", "i64", "u8", "u16", "u32", "u64", "f32", "f64",
              "char", "cstr", "bool", "size"}
    THEN "compare_" \o t ELSE NULL

\* cmp(a, b, desc) through the function pointer cmp
SearchCall(cmp, a, b, desc) ==
    CASE cmp \in {"compare_i8", "compare_i16", "compare_i32", "compare_i64"} ->
             search_compare_signed(a, b, desc)
      [] cmp \in {"compare_u8", "compare_u16", "compare_u32", "compare_u64"} ->
             search_compare_unsigned(a, b, desc)
      [] cmp \in {"compare_f32", "compare_f64"} -> search_compare_float(a, b, desc)
      [] cmp = "compare_char" -> search_compare_char(a, b, desc)
      [] cmp = "compare_cstr" -> search_compare_cstr(a, b, desc)
      [] cmp = "compare_bool" -> search_compare_bool(a, b, desc)
      [] cmp = "compare_size" -> search_compare_size(a, b, desc)

(***************************************************************************)
(* search.c: the algorithms. Each yields [ret, probes]: the status and the *)
(* set of indices of the buffer it read.                                   *)
(***************************************************************************)
RECURSIVE search_linear_loop(_, _, _, _, _, _, _)
search_linear_loop(arr, n, k, cmp, desc, i, seen) ==
    IF i < n
    THEN IF SearchCall(cmp, At(arr, i), k, desc) = 0
         THEN [ret |-> i, probes |-> seen \cup {i}]
         ELSE search_linear_loop(arr, n, k, cmp, desc, i + 1, seen \cup {i})
    ELSE [ret |-> -1, probes |-> seen]

\* search_linear with the scan started at the second element
search_linear_from_one(arr, n, k, size, cmp, desc) ==
    search_linear_loop(arr, n, k, cmp, desc, 1, {})

search_linear(arr, n, k, size, cmp, desc) ==
    search_linear_loop(arr, n, k, cmp, desc, 0, {})

RECURSIVE search_binary_loop(_, _, _, _, _, _, _)
\* while (low < high) of search_binary and of search_exponential
search_binary_loop(arr, k, cmp, desc, low, high, seen) ==
    IF low < high
    THEN LET mid == low + (high - low) \div 2
             c   == SearchCall(cmp, At(arr, mid), k, desc)
         IN  IF c = 0 THEN [ret |-> mid, probes |-> seen \cup {mid}]
             ELSE IF c < 0
                  THEN search_binary_loop(arr, k, cmp, desc, mid + 1, high, seen \cup {mid})
                  ELSE search_binary_loop(arr, k, cmp, desc, low, mid, seen \cup {mid})
    ELSE [ret |-> -1, probes |-> seen]

\* search_binary with high = count - 1 over the same half-open loop
search_binary_high_last(arr, n, k, size, cmp, desc) ==
    search_binary_loop(arr, k, cmp, desc, 0, n - 1, {})

search_binary(arr, n, k, size, cmp, desc) ==
    search_binary_loop(arr, k, cmp, desc, 0, n, {})

\* (size_t)sqrt((double)count)
SqrtFloor(n) == CHOOSE r \in 0 .. n : r * r <= n /\ (r + 1) * (r + 1) > n

RECURSIVE search_jump_scan(_, _, _, _, _, _, _, _)
\* for (i = prev; i < count && i < step; ++i)
search_jump_scan(arr, n, k, cmp, desc, i, step, seen) ==
    IF i < n /\ i < step
    THEN IF SearchCall(cmp, At(arr, i), k, desc) = 0
         THEN [ret |-> i, probes |-> seen \cup {i}]
         ELSE search_jump_scan(arr, n, k, cmp, desc, i + 1, step, seen \cup {i})
    ELSE [ret |-> -1, probes |-> seen]

RECURSIVE search_jump_blocks(_, _, _, _, _, _, _, _)
\* while (prev < count && cmp(ptr[min(step, count) - 1], key) < 0)
search_jump_blocks(arr, n, k, cmp, desc, prev, step, seen) ==
    LET at == IF step < n THEN step - 1 ELSE n - 1
    IN  IF prev < n /\ SearchCall(cmp, At(arr, at), k, desc) < 0
        THEN IF step >= n THEN [ret |-> -1, probes |-> seen \cup {at}]
             ELSE search_jump_blocks(arr, n, k, cmp, desc, step, step + SqrtFloor(n),
                                     seen \cup {at})
        ELSE search_jump_scan(arr, n, k, cmp, desc, prev, step,
                              IF prev < n THEN seen \cup {at} ELSE seen)

search_jump(arr, n, k, size, cmp, desc) ==
    search_jump_blocks(arr, n, k, cmp, desc, 0, SqrtFloor(n), {})

\* a word read as a signed integer (two's complement)
Signed(u) == IF u % WORD >= WORD \div 2 THEN (u % WORD) - WORD ELSE u % WORD

\* the element of type t read through a const int32_t pointer
AsI32(t, v) == IF t = "f32" THEN Signed(F32Bits(v)) ELSE Signed(v)

\* the element of type t read through a const int64_t pointer (a cstr element is
\* the address it holds)
AsI64(t, v) == IF t = "f64" THEN Signed(F64Bits(v)) ELSE Signed(v)

\* a / b rounded toward zero, b # 0
TruncDiv(a, b) ==
    LET q == (IF a < 0 THEN 0 - a ELSE a) \div (IF b < 0 THEN 0 - b ELSE b)
    IN  IF (a < 0) = (b < 0) THEN q ELSE 0 - q

\* what a build makes of (size_t)d for a double d <= -1, which C leaves undefined:
\* the two's complement of the truncated value, or 0
NegativeToSize == {"wrap", "zero"}

\* the status of a call that reads outside the buffer
OutOfBounds == -139

\* what a build makes of a signed subtraction whose result is out of range,
\* which C leaves undefined: the two's complement of the difference, or the
\* difference itself, computed in a wider register before the conversion to double
SignedOverflow == {"wrap", "exact"}

\* a - b on int32_t (or int64_t) operands
SignedSub(so, a, b) == IF so = "wrap" THEN Signed(a - b) ELSE a - b

\* the modulus of size_t next to elements of width size: size_t is as wide as
\* int64_t and wider than int32_t (by 8 bits here: no quotient of
\* (high - low) * difference on a buffer of fewer than 256 int32_t elements
\* reaches it, as none reaches 2^64 in the code)
SizeWord(size) == IF size = 4 THEN WORD * 256 ELSE WORD

\* search_interpolation with low = pos in place of low = pos + 1
search_interpolation_iter_low_at_pos(arr, view, k, kv, cmp, desc, low, high, ub, so, sw, n) ==
    LET Stop(r, s) == [stop |-> TRUE, ret |-> r, low |-> low, high |-> high,
                       pos |-> low, probes |-> s]
    IN  IF ~(low <= high) THEN Stop(-1, {})
        ELSE IF low >= n THEN Stop(OutOfBounds, {low})
        ELSE IF ~(IF desc THEN kv <= At(view, low) ELSE kv >= At(view, low))
             THEN Stop(-1, {low})
        ELSE IF high >= n THEN Stop(OutOfBounds, {low, high})
        ELSE IF ~(IF desc THEN kv >= At(view, high) ELSE kv <= At(view, high))
             THEN Stop(-1, {low, high})
        ELSE IF At(view, high) = At(view, low)
             THEN Stop(IF SearchCall(cmp, At(arr, low), k, desc) = 0 THEN low ELSE -1,
                       {low, high})
        ELSE LET q   == TruncDiv((high - low) * SignedSub(so, kv, At(view, low)),
                                 SignedSub(so, At(view, high), At(view, low)))
                 off == IF q < 0 /\ ub = "zero" THEN 0 ELSE q
                 pos == (low + off) % sw
             IN  IF pos < low \/ pos > high THEN Stop(-1, {low, high})
                 ELSE IF SearchCall(cmp, At(arr, pos), k, desc) = 0
                      THEN Stop(pos, {low, high, pos})
                 ELSE IF (desc /\ At(view, pos) < kv) \/ (~desc /\ At(view, pos) > kv)
                      THEN [stop |-> FALSE, ret |-> 0, low |-> low,
                            high |-> (pos - 1) % sw, pos |-> pos,
                            probes |-> {low, high, pos}]
                      ELSE [stop |-> FALSE, ret |-> 0, low |-> pos, high |-> high,
                            pos |-> pos, probes |-> {low, high, pos}]

\* one evaluation of the while condition and, when it holds, of the loop body, of
\* either branch: arr is the typed buffer, view its elements and kv the key read as
\* int32_t (or int64_t), ub the build's (size_t) of a negative, so its signed
\* overflow, sw the modulus of size_t. stop: the function returns ret; otherwise
\* the body ended with the new low and high after a probe at pos. probes are the
\* indices read
search_interpolation_iter(arr, view, k, kv, cmp, desc, low, high, ub, so, sw, n) ==
    LET Stop(r, s) == [stop |-> TRUE, ret |-> r, low |-> low, high |-> high,
                       pos |-> low, probes |-> s]
    IN  IF ~(low <= high) THEN Stop(-1, {})
        ELSE IF low >= n THEN Stop(OutOfBounds, {low})
        ELSE IF ~(IF desc THEN kv <= At(view, low) ELSE kv >= At(view, low))
             THEN Stop(-1, {low})
        ELSE IF high >= n THEN Stop(OutOfBounds, {low, high})
        ELSE IF ~(IF desc THEN kv >= At(view, high) ELSE kv <= At(view, high))
             THEN Stop(-1, {low, high})
        ELSE IF At(view, high) = At(view, low)
             THEN Stop(IF SearchCall(cmp, At(arr, low), k, desc) = 0 THEN low ELSE -1,
                       {low, high})
        ELSE LET q   == TruncDiv((high - low) * SignedSub(so, kv, At(view, low)),
                                 SignedSub(so, At(view, high), At(view, low)))
                 off == IF q < 0 /\ ub = "zero" THEN 0 ELSE q
                 pos == (low + off) % sw
             IN  IF pos < low \/ pos > high THEN Stop(-1, {low, high})
                 ELSE IF SearchCall(cmp, At(arr, pos), k, desc) = 0
                      THEN Stop(pos, {low, high, pos})
                 ELSE IF (desc /\ At(view, pos) < kv) \/ (~desc /\ At(view, pos) > kv)
                      THEN [stop |-> FALSE, ret |-> 0, low |-> low,
                            high |-> (pos - 1) % sw, pos |-> pos,
                            probes |-> {low, high, pos}]
                      ELSE [stop |-> FALSE, ret |-> 0, low |-> pos + 1, high |-> high,
                            pos |-> pos, probes |-> {low, high, pos}]

RECURSIVE search_interpolation_loop(_, _, _, _, _, _, _, _, _, _, _, _, _)
\* the while loop of either branch, from the bracket [low, high] on
search_interpolation_loop(arr, view, k, kv, cmp, desc, low, high, seen, ub, so, sw, n) ==
    LET it == search_interpolation_iter(arr, view, k, kv, cmp, desc, low, high,
                                        ub, so, sw, n)
    IN  IF it.stop THEN [ret |-> it.ret, probes |-> seen \cup it.probes]
        ELSE search_interpolation_loop(arr, view, k, kv, cmp, desc, it.low, it.high,
                                       seen \cup it.probes, ub, so, sw, n)

\* the elements of a buffer of type t read through the pointer of the branch
InterpolationView(t, arr, n, size) ==
    [i \in 1 .. n |-> IF size = 4 THEN AsI32(t, arr[i]) ELSE AsI64(t, arr[i])]

\* search_interpolation with the bracket test of the ascending order only
search_interpolation_ascending_only(bp, arr, n, kp, k, size, cmp, desc, t, ub, so) ==
    IF n = 0 \/ bp = NULL \/ kp = NULL THEN [ret |-> -2, probes |-> {}]
    ELSE IF size = 4
         THEN search_interpolation_loop(arr, InterpolationView(t, arr, n, size), k,
                                        AsI32(t, k), cmp, FALSE, 0, n - 1, {}, ub, so,
                                        SizeWord(size), n)
    ELSE IF size = 8
         THEN search_interpolation_loop(arr, InterpolationView(t, arr, n, size), k,
                                        AsI64(t, k), cmp, FALSE, 0, n - 1, {}, ub, so,
                                        SizeWord(size), n)
    ELSE [ret |-> -4, probes |-> {}]

\* t is the type of the elements the caller put in the buffer, which the casts
\* to const int32_t * and const int64_t * read as integers
search_interpolation(bp, arr, n, kp, k, size, cmp, desc, t, ub, so) ==
    IF n = 0 \/ bp = NULL \/ kp = NULL THEN [ret |-> -2, probes |-> {}]
    ELSE IF size = 4
         THEN search_interpolation_loop(arr, InterpolationView(t, arr, n, size), k,
                                        AsI32(t, k), cmp, desc, 0, n - 1, {}, ub, so,
                                        SizeWord(size), n)
    ELSE IF size = 8
         THEN search_interpolation_loop(arr, InterpolationView(t, arr, n, size), k,
                                        AsI64(t, k), cmp, desc, 0, n - 1, {}, ub, so,
                                        SizeWord(size), n)
    ELSE [ret |-> -4, probes |-> {}]

RECURSIVE search_exponential_bound(_, _, _, _, _, _, _)
\* while (bound < count && cmp(ptr[bound], key) < 0) bound *= 2: [bound, seen]
search_exponential_bound(arr, n, k, cmp, desc, bound, seen) ==
    IF bound < n /\ SearchCall(cmp, At(arr, bound), k, desc) < 0
    THEN search_exponential_bound(arr, n, k, cmp, desc, bound * 2, seen \cup {bound})
    ELSE [bound |-> bound, seen |-> IF bound < n THEN seen \cup {bound} ELSE seen]

search_exponential(bp, arr, n, kp, k, size, cmp, desc) ==
    IF n = 0 \/ bp = NULL \/ kp = NULL \/ cmp = NULL THEN [ret |-> -1, probes |-> {}]
    ELSE LET r    == search_exponential_bound(arr, n, k, cmp, desc, 1, {})
             low  == r.bound \div 2
             high == IF r.bound < n THEN r.bound ELSE n
         IN  search_binary_loop(arr, k, cmp, desc, low, high, r.seen)

RECURSIVE search_fibonacci_init(_, _, _, _)
\* while (fibM < count): the Fibonacci numbers (m-2, m-1, m) with fibM >= count
search_fibonacci_init(fibMMm2, fibMMm1, fibM, n) ==
    IF fibM < n
    THEN search_fibonacci_init(fibMMm1, fibM, fibMMm1 + fibM, n)
    ELSE <<fibMMm2, fibMMm1, fibM>>

RECURSIVE search_fibonacci_loop(_, _, _, _, _, _, _, _, _, _)
\* while (fibM > 1) and the final comparison; size_t arithmetic wraps modulo WORD
search_fibonacci_loop(arr, n, k, cmp, desc, fibMMm2, fibMMm1, fibM, offset, seen) ==
    IF fibM > 1
    THEN LET s == (offset + fibMMm2) % WORD
             i == IF s < (n - 1) % WORD THEN s ELSE (n - 1) % WORD
         IN  IF i >= n THEN [ret |-> OutOfBounds, probes |-> seen \cup {i}]
             ELSE LET c == SearchCall(cmp, At(arr, i), k, desc)
                  IN  IF c < 0
                      THEN search_fibonacci_loop(arr, n, k, cmp, desc,
                               (fibMMm1 - fibMMm2) % WORD, fibMMm2, fibMMm1, i,
                               seen \cup {i})
                      ELSE IF c > 0
                      THEN search_fibonacci_loop(arr, n, k, cmp, desc,
                               (fibMMm2 - ((fibMMm1 - fibMMm2) % WORD)) % WORD,
                               (fibMMm1 - fibMMm2) % WORD, fibMMm2, offset,
                               seen \cup {i})
                      ELSE [ret |-> i, probes |-> seen \cup {i}]
    ELSE LET j == (offset + 1) % WORD
         IN  IF fibMMm1 # 0 /\ j < n
             THEN IF SearchCall(cmp, At(arr, j), k, desc) = 0
                  THEN [ret |-> j, probes |-> seen \cup {j}]
                  ELSE [ret |-> -1, probes |-> seen \cup {j}]
             ELSE [ret |-> -1, probes |-> seen]

\* search_fibonacci with offset = 0 in place of (size_t)-1
search_fibonacci_offset_zero(arr, n, k, size, cmp, desc) ==
    LET f == search_fibonacci_init(0, 1, 1, n)
    IN  search_fibonacci_loop(arr, n, k, cmp, desc, f[1], f[2], f[3], 0, {})

search_fibonacci(arr, n, k, size, cmp, desc) ==
    LET f == search_fibonacci_init(0, 1, 1, n)
    IN  search_fibonacci_loop(arr, n, k, cmp, desc, f[1], f[2], f[3], WORD - 1, {})

\* fossil_algorithm_search_exec with the algorithm identifier resolved before the type
fossil_algorithm_search_exec_alg_first(bp, arr, n, kp, k, t, alg, ord) ==
    IF bp = NULL \/ kp = NULL \/ n = 0 \/ t = NULL THEN {[ret |-> -2, probes |-> {}]}
    ELSE IF alg \notin {NULL, "auto", "linear", "binary", "jump", "interpolation",
                        "exponential", "fibonacci"}
         THEN {[ret |-> -4, probes |-> {}]}
    ELSE IF fossil_algorithm_search_type_sizeof(t) = 0
              \/ fossil_search_select_comparator(t) = NULL
         THEN {[ret |-> -3, probes |-> {}]}
    ELSE {search_linear(arr, n, k, fossil_algorithm_search_type_sizeof(t),
                        fossil_search_select_comparator(t), ord = "desc")}

\* the set of outcomes [ret, probes] of fossil_algorithm_search_exec
fossil_algorithm_search_exec(bp, arr, n, kp, k, t, alg, ord) ==
    IF bp = NULL \/ kp = NULL \/ n = 0 \/ t = NULL THEN {[ret |-> -2, probes |-> {}]}
    ELSE LET type_size == fossil_algorithm_search_type_sizeof(t)
             desc == (ord # NULL /\ ord = "desc")
             cmp  == fossil_search_select_comparator(t)
         IN  IF type_size = 0 THEN {[ret |-> -3, probes |-> {}]}
             ELSE IF cmp = NULL THEN {[ret |-> -3, probes |-> {}]}
             ELSE IF alg = NULL \/ alg = "auto" \/ alg = "linear"
                  THEN {search_linear(arr, n, k, type_size, cmp, desc)}
             ELSE IF alg = "binary"
                  THEN {search_binary(arr, n, k, type_size, cmp, desc)}
             ELSE IF alg = "jump"
                  THEN {search_jump(arr, n, k, type_size, cmp, desc)}
             ELSE IF alg = "interpolation"
                  THEN IF ~(type_size = 4 \/ type_size = 8)
                       THEN {[ret |-> -4, probes |-> {}]}
                       ELSE {search_interpolation(bp, arr, n, kp, k, type_size, cmp,
                                                  desc, t, ub, so) :
                                ub \in NegativeToSize, so \in SignedOverflow}
             ELSE IF alg = "exponential"
                  THEN {search_exponential(bp, arr, n, kp, k, type_size, cmp, desc)}
             ELSE IF alg = "fibonacci"
                  THEN {search_fibonacci(arr, n, k, type_size, cmp, desc)}
             ELSE {[ret |-> -4, probes |-> {}]}

(***************************************************************************)
(* The caller's buffers.                                                   *)
(***************************************************************************)
(***************************************************************************)
(* sort.c: the sorts that take a caller's comparator and sort options      *)
(* (fossil_algorithm_sort_quick, _merge, _heap, _insertion, _shell,        *)
(* _bubble). malloc is taken to succeed.                                   *)
(***************************************************************************)
FOSSIL_SORT_ASCENDING == 0

FOSSIL_SORT_DESCENDING == 1

FOSSIL_SORT_UNSTABLE == 0

FOSSIL_SORT_STABLE == 1

\* const fossil_sort_options_t *options = NULL: no struct is read through it
NullOptions ==
    [ptr |-> NULL, order |-> FOSSIL_SORT_ASCENDING, stable |-> FOSSIL_SORT_UNSTABLE]

\* const fossil_sort_options_t *options: a null pointer or a pointer to a struct
SortOptions ==
    {NullOptions} \cup [ptr : {"opts"},
                        order : {FOSSIL_SORT_ASCENDING, FOSSIL_SORT_DESCENDING},
                        stable : {FOSSIL_SORT_UNSTABLE, FOSSIL_SORT_STABLE}]

\* the comparators a caller passes: a null pointer, one of the two of the tests,
\* or one that looks at a part of the element only and so ties distinct elements
CompareFns == {NULL, "cpp_cmp_int_asc", "cpp_cmp_int_desc", "cmp_int_by_tens"}

\* return (ai > bi) - (ai < bi)
cpp_cmp_int_asc(ai, bi) == B2I(ai > bi) - B2I(ai < bi)

\* return (bi > ai) - (bi < ai)
cpp_cmp_int_desc(ai, bi) == B2I(bi > ai) - B2I(bi < ai)

\* the part of an int element the third comparator orders by: -1 for -1, 0 for
\* 0 .. 9, 1 for 10 .. 19
TensOf(v) == IF v < 0 THEN -1 ELSE v \div 10

\* a fossil_compare_fn ordering ints by their tens, ascending
cmp_int_by_tens(ai, bi) == B2I(TensOf(ai) > TensOf(bi)) - B2I(TensOf(ai) < TensOf(bi))

\* int res = cmp(a, b); if (options && options->order == FOSSIL_SORT_DESCENDING)
\* res = -res;
CompareWithOptions(cmp, a, b, options) ==
    LET res == CASE cmp = "cpp_cmp_int_asc"  -> cpp_cmp_int_asc(a, b)
                 [] cmp = "cpp_cmp_int_desc" -> cpp_cmp_int_desc(a, b)
                 [] cmp = "cmp_int_by_tens"  -> cmp_int_by_tens(a, b)
    IN  IF options.ptr # NULL /\ options.order = FOSSIL_SORT_DESCENDING THEN 0 - res
        ELSE res

RECURSIVE fossil_quick_partition_loop(_, _, _, _, _, _)
\* the iterations j = lo .. hi - 1, in this order, of
\* for (j = low; j < high; ++j) if (res < 0) { swap(i, j); i++; }
\* on the state st = [arr, pi] (pi is the variable i of the code); a run of
\* iterations is its first half followed by its second half
fossil_quick_partition_loop(st, lo, hi, high, cmp, options) ==
    IF lo >= hi THEN st
    ELSE IF hi - lo = 1
    THEN IF CompareWithOptions(cmp, At(st.arr, lo), At(st.arr, high), options) < 0
         THEN [arr |-> Swap(st.arr, st.pi, lo), pi |-> st.pi + 1]
         ELSE st
    ELSE LET m    == lo + (hi - lo) \div 2
             done == fossil_quick_partition_loop(st, lo, m, high, cmp, options)
         IN  IF done.pi >= st.pi
             THEN fossil_quick_partition_loop(done, m, hi, high, cmp, options)
             ELSE done

\* the loop, then fossil_swap_bytes(base + i * size, pivot, size); return i
fossil_quick_partition(b, low, high, cmp, options) ==
    LET st == fossil_quick_partition_loop([arr |-> b, pi |-> low], low, high, high,
                                          cmp, options)
    IN  [arr |-> Swap(st.arr, st.pi, high), pi |-> st.pi]

RECURSIVE fossil_quick_sort(_, _, _, _, _)
fossil_quick_sort(b, low, high, cmp, options) ==
    IF low < high
    THEN LET p  == fossil_quick_partition(b, low, high, cmp, options)
             b1 == IF p.pi > 0
                   THEN fossil_quick_sort(p.arr, low, p.pi - 1, cmp, options)
                   ELSE p.arr
         IN  IF Len(b1) = Len(b)
             THEN fossil_quick_sort(b1, p.pi + 1, high, cmp, options)
             ELSE b1
    ELSE b

fossil_algorithm_sort_quick(bp, b, n, cmp, options) ==
    IF n <= 1 \/ bp = NULL \/ cmp = NULL THEN [ret |-> 0, mem |-> b]
    ELSE [ret |-> 0, mem |-> fossil_quick_sort(b, 0, n - 1, cmp, options)]

RECURSIVE fossil_merge_options_loop_right_on_ties(_, _, _, _, _, _, _, _)
\* the merge loops taking the element of the right run when the two compare equal
fossil_merge_options_loop_right_on_ties(b, st, lo, hi, mid, right, cmp, options) ==
    IF lo >= hi THEN st
    ELSE IF hi - lo = 1
    THEN IF st.i < mid /\ st.j < right
         THEN IF CompareWithOptions(cmp, At(b, st.i), At(b, st.j), options) < 0
              THEN [i |-> st.i + 1, j |-> st.j, temp |-> Append(st.temp, At(b, st.i))]
              ELSE [i |-> st.i, j |-> st.j + 1, temp |-> Append(st.temp, At(b, st.j))]
         ELSE IF st.i < mid
         THEN [i |-> st.i + 1, j |-> st.j, temp |-> Append(st.temp, At(b, st.i))]
         ELSE [i |-> st.i, j |-> st.j + 1, temp |-> Append(st.temp, At(b, st.j))]
    ELSE LET m    == lo + (hi - lo) \div 2
             done == fossil_merge_options_loop_right_on_ties(b, st, lo, m, mid, right, cmp, options)
         IN  IF Len(done.temp) >= Len(st.temp)
             THEN fossil_merge_options_loop_right_on_ties(b, done, m, hi, mid, right, cmp, options)
             ELSE done

RECURSIVE fossil_merge_options_loop(_, _, _, _, _, _, _, _)
\* the iterations k = lo .. hi - 1, in this order, of the three while loops of
\* fossil_merge, each of which writes temp[k] and advances i or j, on the state
\* st = [i, j, temp]; a run of iterations is its first half followed by its
\* second half
fossil_merge_options_loop(b, st, lo, hi, mid, right, cmp, options) ==
    IF lo >= hi THEN st
    ELSE IF hi - lo = 1
    THEN IF st.i < mid /\ st.j < right
         THEN IF CompareWithOptions(cmp, At(b, st.i), At(b, st.j), options) <= 0
              THEN [i |-> st.i + 1, j |-> st.j, temp |-> Append(st.temp, At(b, st.i))]
              ELSE [i |-> st.i, j |-> st.j + 1, temp |-> Append(st.temp, At(b, st.j))]
         ELSE IF st.i < mid
         THEN [i |-> st.i + 1, j |-> st.j, temp |-> Append(st.temp, At(b, st.i))]
         ELSE [i |-> st.i, j |-> st.j + 1, temp |-> Append(st.temp, At(b, st.j))]
    ELSE LET m    == lo + (hi - lo) \div 2
             done == fossil_merge_options_loop(b, st, lo, m, mid, right, cmp, options)
         IN  IF Len(done.temp) >= Len(st.temp)
             THEN fossil_merge_options_loop(b, done, m, hi, mid, right, cmp, options)
             ELSE done

\* fossil_merge of the options API: merge [left, mid) and [mid, right) through
\* temp, then memcpy(base + left * size, temp + left * size, ...)
fossil_merge_options(b, left, mid, right, cmp, options) ==
    LET st == fossil_merge_options_loop(b, [i |-> left, j |-> mid, temp |-> <<>>],
                                        left, right, mid, right, cmp, options)
    IN  SubSeq(b, 1, left) \o st.temp \o SubSeq(b, right + 1, Len(b))

RECURSIVE fossil_merge_sort_recursive(_, _, _, _, _)
fossil_merge_sort_recursive(b, left, right, cmp, options) ==
    IF right - left > 1
    THEN LET mid == left + (right - left) \div 2
             b1  == fossil_merge_sort_recursive(b, left, mid, cmp, options)
             b2  == fossil_merge_sort_recursive(b1, mid, right, cmp, options)
         IN  IF Len(b1) = Len(b) /\ Len(b2) = Len(b)
             THEN fossil_merge_options(b2, left, mid, right, cmp, options)
             ELSE b
    ELSE b

fossil_algorithm_sort_merge(bp, b, n, cmp, options) ==
    IF n <= 1 \/ bp = NULL \/ cmp = NULL THEN [ret |-> 0, mem |-> b]
    ELSE [ret |-> 0, mem |-> fossil_merge_sort_recursive(b, 0, n, cmp, options)]

RECURSIVE fossil_heapify_options_right_plain(_, _, _, _, _)
\* a heapify that forgets the requested order when it looks at the right child
fossil_heapify_options_right_plain(b, n, root, cmp, options) ==
    LET left  == 2 * root + 1
        right == 2 * root + 2
        l1 == IF left < n /\ CompareWithOptions(cmp, At(b, left), At(b, root), options) > 0
              THEN left ELSE root
        largest == IF right < n /\ CompareWithOptions(cmp, At(b, right), At(b, l1), NullOptions) > 0
                   THEN right ELSE l1
    IN  IF largest # root
        THEN fossil_heapify_options_right_plain(Swap(b, root, largest), n, largest,
                                                cmp, options)
        ELSE b

RECURSIVE fossil_heapify_options(_, _, _, _, _)
\* fossil_heapify of the options API
fossil_heapify_options(b, n, root, cmp, options) ==
    LET left  == 2 * root + 1
        right == 2 * root + 2
        l1 == IF left < n /\ CompareWithOptions(cmp, At(b, left), At(b, root), options) > 0
              THEN left ELSE root
        largest == IF right < n /\ CompareWithOptions(cmp, At(b, right), At(b, l1), options) > 0
                   THEN right ELSE l1
    IN  IF largest # root
        THEN fossil_heapify_options(Swap(b, root, largest), n, largest, cmp, options)
        ELSE b

RECURSIVE fossil_heap_options_build(_, _, _, _, _)
\* for (long i = (long)count / 2 - 1; i >= 0; --i) fossil_heapify(arr, count, i, ...)
fossil_heap_options_build(b, n, i, cmp, options) ==
    IF i >= 0
    THEN fossil_heap_options_build(fossil_heapify_options(b, n, i, cmp, options),
                                   n, i - 1, cmp, options)
    ELSE b

RECURSIVE fossil_heap_options_extract(_, _, _, _)
\* for (i = count - 1; i > 0; --i) { swap(arr[0], arr[i]); fossil_heapify(arr, i, 0, ...) }
fossil_heap_options_extract(b, i, cmp, options) ==
    IF i > 0
    THEN fossil_heap_options_extract(
             fossil_heapify_options(Swap(b, 0, i), i, 0, cmp, options),
             i - 1, cmp, options)
    ELSE b

fossil_algorithm_sort_heap(bp, b, n, cmp, options) ==
    IF n <= 1 \/ bp = NULL \/ cmp = NULL THEN [ret |-> 0, mem |-> b]
    ELSE [ret |-> 0,
          mem |-> fossil_heap_options_extract(
                      fossil_heap_options_build(b, n, (n \div 2) - 1, cmp, options),
                      n - 1, cmp, options)]

RECURSIVE fossil_gap_shift(_, _, _, _, _, _)
\* while (j >= gap) { if (res < 0) { arr[j] = arr[j-gap]; j -= gap; } else break; }
\* arr[j] = temp   (gap is 1 in the insertion sort, where the test is j > 0)
fossil_gap_shift(arr, j, gap, temp, cmp, options) ==
    IF j >= gap /\ CompareWithOptions(cmp, temp, At(arr, j - gap), options) < 0
    THEN fossil_gap_shift(Put(arr, j, At(arr, j - gap)), j - gap, gap, temp, cmp, options)
    ELSE Put(arr, j, temp)

RECURSIVE fossil_gap_pass(_, _, _, _, _, _)
\* the iterations i = lo .. hi - 1, in this order, of
\* for (i = gap; i < count; ++i) { temp = arr[i]; j = i; ... }
\* a run of iterations is its first half followed by its second half
fossil_gap_pass(arr, lo, hi, gap, cmp, options) ==
    IF lo >= hi THEN arr
    ELSE IF hi - lo = 1
    THEN fossil_gap_shift(arr, lo, gap, At(arr, lo), cmp, options)
    ELSE LET m    == lo + (hi - lo) \div 2
             done == fossil_gap_pass(arr, lo, m, gap, cmp, options)
         IN  IF Len(done) = Len(arr)
             THEN fossil_gap_pass(done, m, hi, gap, cmp, options)
             ELSE done

fossil_algorithm_sort_insertion(bp, b, n, cmp, options) ==
    IF n <= 1 \/ bp = NULL \/ cmp = NULL THEN [ret |-> 0, mem |-> b]
    ELSE [ret |-> 0, mem |-> fossil_gap_pass(b, 1, n, 1, cmp, options)]

RECURSIVE fossil_shell_options_gaps(_, _, _, _, _)
\* for (gap = count / 2; gap > 0; gap /= 2)
fossil_shell_options_gaps(arr, gap, n, cmp, options) ==
    IF gap > 0
    THEN fossil_shell_options_gaps(fossil_gap_pass(arr, gap, n, gap, cmp, options),
                                   gap \div 2, n, cmp, options)
    ELSE arr

fossil_algorithm_sort_shell(bp, b, n, cmp, options) ==
    IF n <= 1 \/ bp = NULL \/ cmp = NULL THEN [ret |-> 0, mem |-> b]
    ELSE [ret |-> 0, mem |-> fossil_shell_options_gaps(b, n \div 2, n, cmp, options)]

RECURSIVE fossil_bubble_options_loops(_, _, _, _, _, _, _)
\* for (i = 0; i < count - 1; ++i) { swapped = 0; for (j = 0; j < count - i - 1; ++j)
\* if (res > 0) { swap(j, j + 1); swapped = 1; }  if (!swapped) break; }
fossil_bubble_options_loops(arr, i, j, swapped, n, cmp, options) ==
    IF ~(i < n - 1) THEN arr
    ELSE IF ~(j < n - i - 1)
         THEN IF ~swapped THEN arr
              ELSE fossil_bubble_options_loops(arr, i + 1, 0, FALSE, n, cmp, options)
    ELSE IF CompareWithOptions(cmp, At(arr, j), At(arr, j + 1), options) > 0
         THEN fossil_bubble_options_loops(Swap(arr, j, j + 1), i, j + 1, TRUE, n,
                                          cmp, options)
         ELSE fossil_bubble_options_loops(arr, i, j + 1, swapped, n, cmp, options)

fossil_algorithm_sort_bubble(bp, b, n, cmp, options) ==
    IF n <= 1 \/ bp = NULL \/ cmp = NULL THEN [ret |-> 0, mem |-> b]
    ELSE [ret |-> 0, mem |-> fossil_bubble_options_loops(b, 0, 0, FALSE, n, cmp, options)]

\* the count from which fossil_algorithm_sort_auto leaves insertion sort
AUTO_THRESHOLD == 32

\* (fossil_sort_options_t)FOSSIL_SORT_DEFAULT_OPTIONS
FOSSIL_SORT_DEFAULT_OPTIONS ==
    [ptr |-> "default", order |-> FOSSIL_SORT_ASCENDING, stable |-> FOSSIL_SORT_UNSTABLE]

\* an auto sort that looks at the stability requirement before the count
fossil_algorithm_sort_auto_stable_first(bp, b, n, cmp, options) ==
    IF n <= 1 THEN [ret |-> 0, mem |-> b, ran |-> "none"]
    ELSE LET o == IF options.ptr = NULL THEN FOSSIL_SORT_DEFAULT_OPTIONS ELSE options
         IN  IF o.stable = FOSSIL_SORT_STABLE
             THEN [ret |-> 0, mem |-> fossil_algorithm_sort_merge(bp, b, n, cmp, o).mem,
                   ran |-> "merge"]
             ELSE IF n < AUTO_THRESHOLD
             THEN [ret |-> 0, mem |-> fossil_algorithm_sort_insertion(bp, b, n, cmp, o).mem,
                   ran |-> "insertion"]
             ELSE [ret |-> 0, mem |-> fossil_algorithm_sort_quick(bp, b, n, cmp, o).mem,
                   ran |-> "quick"]

\* the outcome [ret, mem] of fossil_algorithm_sort_auto and the sort it ran
fossil_algorithm_sort_auto(bp, b, n, cmp, options) ==
    IF n <= 1 THEN [ret |-> 0, mem |-> b, ran |-> "none"]
    ELSE LET o == IF options.ptr = NULL THEN FOSSIL_SORT_DEFAULT_OPTIONS ELSE options
         IN  IF n < AUTO_THRESHOLD
             THEN LET r == fossil_algorithm_sort_insertion(bp, b, n, cmp, o)
                  IN  [ret |-> r.ret, mem |-> r.mem, ran |-> "insertion"]
             ELSE IF o.stable = FOSSIL_SORT_STABLE
             THEN LET r == fossil_algorithm_sort_merge(bp, b, n, cmp, o)
                  IN  [ret |-> r.ret, mem |-> r.mem, ran |-> "merge"]
             ELSE LET r == fossil_algorithm_sort_quick(bp, b, n, cmp, o)
                  IN  [ret |-> r.ret, mem |-> r.mem, ran |-> "quick"]

\* the sorts of the options API by name
SortFunctions == {"quick", "merge", "heap", "insertion", "shell", "bubble"}

\* fossil_algorithm_sort_<f>(base, n, sizeof(int), cmp, options)
CallSort(f, bp, b, n, cmp, options) ==
    CASE f = "quick"     -> fossil_algorithm_sort_quick(bp, b, n, cmp, options)
      [] f = "merge"     -> fossil_algorithm_sort_merge(bp, b, n, cmp, options)
      [] f = "heap"      -> fossil_algorithm_sort_heap(bp, b, n, cmp, options)
      [] f = "insertion" -> fossil_algorithm_sort_insertion(bp, b, n, cmp, options)
      [] f = "shell"     -> fossil_algorithm_sort_shell(bp, b, n, cmp, options)
      [] f = "bubble"    -> fossil_algorithm_sort_bubble(bp, b, n, cmp, options)
      [] f = "auto"      -> fossil_algorithm_sort_auto(bp, b, n, cmp, options)

(***************************************************************************)
(* shuffle.c: seed derivation, byte swap, type widths and the two shuffles *)
(***************************************************************************)
\* longest buffer handed to the shuffle engine
MaxShuffle == 3
ShuffleAlgorithmIds == {NULL, "auto", "fisher-yates", "inside-out", "notalgo"}

ModeIds == {NULL, "auto", "seeded", "secure", "notamode"}

\* uint64_t seeds: zero, non-zero, and non-zero with a zero low word
Seeds == {0, 1, WORD}

\* the values time(NULL) may return
TimeValues == {1, 2}

\* the values (uintptr_t)&seed may take
SeedAddresses == {4, 8}

\* libc's RAND_MAX, scaled: rand() % (i + 1) still takes every value 0..i for
\* every index i the loops reach
RAND_MAX == MaxShuffle - 1

RECURSIVE Xor(_, _)
\* a ^ b
Xor(a, b) == IF a = 0 /\ b = 0 THEN 0 ELSE ((a + b) % 2) + 2 * Xor(a \div 2, b \div 2)

\* a seed derivation that reads the clock in every mode
fossil_algorithm_shuffle_rand_seed_clock(sd, mode) ==
    {[seed |-> Xor(tm, ad), clock |-> TRUE] : tm \in TimeValues, ad \in SeedAddresses}

\* the outcomes of fossil_algorithm_shuffle_rand_seed: the seed it returns and
\* whether it called time()
fossil_algorithm_shuffle_rand_seed(sd, mode) ==
    IF mode = NULL \/ mode = "auto"
    THEN {[seed |-> Xor(tm, ad), clock |-> TRUE] : tm \in TimeValues, ad \in SeedAddresses}
    ELSE IF mode = "seeded"
    THEN IF sd # 0 THEN {[seed |-> sd, clock |-> FALSE]}
         ELSE {[seed |-> tm, clock |-> TRUE] : tm \in TimeValues}
    ELSE IF mode = "secure"
    THEN {[seed |-> Xor(tm, ad), clock |-> TRUE] : tm \in TimeValues, ad \in SeedAddresses}
    ELSE {[seed |-> tm, clock |-> TRUE] : tm \in TimeValues}

RECURSIVE ByteOf(_, _)
\* byte k (0 is the lowest) of the two's complement representation of v
ByteOf(v, k) == IF k = 0 THEN v % 256 ELSE ByteOf(v \div 256, k - 1)

\* unsigned char *data = (unsigned char *)base: the bytes of the buffer b whose
\* elements are size bytes wide
ShuffleData(b, size) ==
    [p \in 1 .. Len(b) * size |-> ByteOf(b[((p - 1) \div size) + 1], (p - 1) % size)]

RECURSIVE LittleEndian(_)
\* the unsigned number the bytes spell, lowest byte first
LittleEndian(bs) == IF bs = <<>> THEN 0 ELSE Head(bs) + 256 * LittleEndian(Tail(bs))

\* the element the bytes bs hold (two's complement)
ElemOf(bs) ==
    IF bs[Len(bs)] >= 128
    THEN 0 - (LittleEndian([k \in 1 .. Len(bs) |-> 255 - bs[k]]) + 1)
    ELSE LittleEndian(bs)

\* the buffer of elements the caller reads back from the bytes
ShuffleElems(data, size) ==
    [e \in 1 .. Len(data) \div size |->
        ElemOf(SubSeq(data, (e - 1) * size + 1, e * size))]

RECURSIVE fossil_algorithm_shuffle_swap_copy(_, _, _, _)
\* a swap that only copies b over a
fossil_algorithm_shuffle_swap_copy(data, a, b, size) ==
    IF size = 0 THEN data
    ELSE fossil_algorithm_shuffle_swap_copy([data EXCEPT ![a + 1] = data[b + 1]],
                                            a + 1, b + 1, size - 1)

\* a swap that leaves both operands as they are
fossil_algorithm_shuffle_swap_nothing(data, a, b, size) == data

RECURSIVE fossil_algorithm_shuffle_swap(_, _, _, _)
\* while (size--) { tmp = *x; *x++ = *y; *y++ = tmp; } with x = data + a, y = data + b
fossil_algorithm_shuffle_swap(data, a, b, size) ==
    IF size = 0 THEN data
    ELSE LET tmp == data[a + 1]
             d1  == [data EXCEPT ![a + 1] = data[b + 1]]
             d2  == [d1 EXCEPT ![b + 1] = tmp]
         IN  fossil_algorithm_shuffle_swap(d2, a + 1, b + 1, size - 1)

fossil_algorithm_shuffle_type_sizeof(t) ==
    IF t = NULL THEN 0
    ELSE IF t \in {"i8", "u8", "char", "bool"} THEN 1
    ELSE IF t \in {"i16", "u16"} THEN 2
    ELSE IF t \in {"i32", "u32", "f32"} THEN 4
    ELSE IF t \in {"i64", "u64", "f64", "size"} THEN 8
    ELSE IF t = "cstr" THEN 8
    ELSE IF t \in {"hex", "oct", "bin", "datetime", "duration"} THEN 8
    ELSE IF t \in {"any", "null"} THEN 8
    ELSE 0

\* a type_supported that takes every non-null identifier
fossil_algorithm_shuffle_type_supported_nonnull(t) == t # NULL

fossil_algorithm_shuffle_type_supported(t) == fossil_algorithm_shuffle_type_sizeof(t) > 0

\* the values rand() may return as call number k (from 0) after srand(s): the
\* generator is a function of the seed, so a value it returned before for the
\* same s and k is returned again; any other value is unknown
rand(s, k, tbl) ==
    IF \E r \in tbl : r.s = s /\ r.k = k
    THEN {r.v : r \in {x \in tbl : x.s = s /\ x.k = k}}
    ELSE 0 .. RAND_MAX

\* the body of the loop of fossil_algorithm_shuffle_fisher_yates for index i,
\* with r the value rand() returned
fossil_algorithm_shuffle_fisher_yates(data, i, size, r) ==
    LET j == r % (i + 1)
    IN  fossil_algorithm_shuffle_swap(data, i * size, j * size, size)

\* the body of the loop of fossil_algorithm_shuffle_inside_out for index i
fossil_algorithm_shuffle_inside_out(data, i, size, r) ==
    LET j == r % (i + 1)
    IN  IF j # i THEN fossil_algorithm_shuffle_swap(data, i * size, j * size, size)
        ELSE data

\* fossil_algorithm_shuffle_exec with the algorithm identifier checked first
fossil_algorithm_shuffle_exec_alg_first(bp, n, t, alg, mode, sd) ==
    IF (IF alg # NULL THEN alg ELSE "auto") \notin {"auto", "fisher-yates", "inside-out"}
    THEN {[ret |-> -3, run |-> "none", seed |-> 0, clock |-> FALSE]}
    ELSE IF bp = NULL \/ n = 0 \/ t = NULL
    THEN {[ret |-> -1, run |-> "none", seed |-> 0, clock |-> FALSE]}
    ELSE IF fossil_algorithm_shuffle_type_sizeof(t) = 0
    THEN {[ret |-> -2, run |-> "none", seed |-> 0, clock |-> FALSE]}
    ELSE {[ret |-> 0,
           run |-> IF alg = "inside-out" THEN "inside_out" ELSE "fisher_yates",
           seed |-> rs.seed, clock |-> rs.clock] :
              rs \in fossil_algorithm_shuffle_rand_seed(sd, mode)}

\* fossil_algorithm_shuffle_exec up to the call of the algorithm: the status, the
\* algorithm that runs (if any), the seed it is given and whether the clock was read
fossil_algorithm_shuffle_exec(bp, n, t, alg, mode, sd) ==
    IF bp = NULL \/ n = 0 \/ t = NULL
    THEN {[ret |-> -1, run |-> "none", seed |-> 0, clock |-> FALSE]}
    ELSE IF fossil_algorithm_shuffle_type_sizeof(t) = 0
    THEN {[ret |-> -2, run |-> "none", seed |-> 0, clock |-> FALSE]}
    ELSE LET algo == IF alg # NULL THEN alg ELSE "auto"
         IN  {[ret |-> IF algo \in {"auto", "fisher-yates", "inside-out"} THEN 0 ELSE -3,
               run |-> IF algo = "auto" \/ algo = "fisher-yates" THEN "fisher_yates"
                       ELSE IF algo = "inside-out" THEN "inside_out"
                       ELSE "none",
               seed |-> rs.seed, clock |-> rs.clock] :
                  rs \in fossil_algorithm_shuffle_rand_seed(sd, mode)}

\* no shuffle call has been made
ShuffleIdle ==
    /\ mode_id = NULL /\ seed = 0 /\ loop_i = 0
    /\ srand_seed = 1 /\ nrand = 0 /\ drawn = {}
    /\ clock = FALSE /\ call = 1 /\ out1 = <<>>

\* no sort taking a comparator and options has been called
OptionsIdle == sort_fn = NULL /\ cmp_fn = NULL /\ opts = NullOptions /\ ran = "none"

\* every allocation succeeds
HeapAvailable == nomem = {}

\* no type has been queried
NoQueries == queries = {}

\* no search_interpolation is running
NoFrame == [low |-> 0, high |-> 0, pos |-> 0, bodies |-> 0, ub |-> "wrap", so |-> "wrap"]

InterpolationIdle == interp = NoFrame

\* the caller has one thread
NoThreads == threads = <<>>

\* every buffer of at most n elements of type t
BuffersUpTo(t, n) == UNION {[1 .. k -> ValuesOf(t)] : k \in 0 .. n}

(***************************************************************************)
(* Sort engine: a caller holding a buffer calls fossil_algorithm_sort_exec *)
(***************************************************************************)
InitSort ==
    /\ pc = "ready"
    /\ type_id \in TypeIds
    /\ base \in {"arr", NULL}
    /\ mem \in BuffersUpTo(type_id, IF base = NULL THEN 0 ELSE MaxCount)
    /\ mem0 = mem
    /\ count = 0
    /\ key = NULL
    /\ keyval = 0
    /\ algorithm_id = NULL
    /\ order_id = NULL
    /\ ret = 0
    /\ probes = {}
    /\ ShuffleIdle
    /\ OptionsIdle
    /\ HeapAvailable
    /\ NoQueries
    /\ InterpolationIdle
    /\ NoThreads

\* status = fossil_algorithm_sort_exec(arr, n, type_id, alg, ord)
SortExec ==
    /\ pc = "ready"
    /\ \E n \in (IF base = NULL THEN {0, 2} ELSE {Len(mem)}),
          alg \in SortAlgorithmIds, ord \in OrderIds :
          \E r \in fossil_algorithm_sort_exec(base, mem, n, type_id, alg, ord) :
              /\ count' = n
              /\ algorithm_id' = alg
              /\ order_id' = ord
              /\ ret' = r.ret
              /\ mem' = r.mem
    /\ pc' = "sorted"
    /\ UNCHANGED <<type_id, base, mem0, key, keyval, probes, shufvars, optvars, nomem, queries, interp, threads>>

NextSort == SortExec

SpecSort == InitSort /\ [][NextSort]_vars

(***************************************************************************)
(* The orderings the claims speak of, stated on the element values.        *)
(***************************************************************************)
RECURSIVE LexLeq(_, _)
\* byte-wise lexicographic order of two strings
LexLeq(sa, sb) ==
    IF sa = <<>> THEN TRUE
    ELSE IF sb = <<>> THEN FALSE
    ELSE IF Head(sa) # Head(sb) THEN Head(sa) < Head(sb)
    ELSE LexLeq(Tail(sa), Tail(sb))

\* a precedes or equals b in the ordering of type t
TypeLeq(t, a, b) == IF t = "cstr" THEN LexLeq(StrOf(a), StrOf(b)) ELSE a <= b

\* a and b are equal elements of type t
TypeEq(t, a, b) == TypeLeq(t, a, b) /\ TypeLeq(t, b, a)

\* the first n elements of s are monotonic in the requested order
Monotonic(t, s, n, desc) ==
    \A i \in 1 .. n - 1 :
        IF desc THEN TypeLeq(t, s[i + 1], s[i]) ELSE TypeLeq(t, s[i], s[i + 1])

\* s and r hold the same elements, each as often
IsPermutation(s, r) ==
    /\ Len(s) = Len(r)
    /\ \A v \in {s[i] : i \in DOMAIN s} \cup {r[i] : i \in DOMAIN r} :
           Cardinality({i \in DOMAIN s : s[i] = v})
               = Cardinality({i \in DOMAIN r : r[i] = v})

\* the type identifiers fossil_algorithm_sort_exec has a comparator for
SortComparatorTypes ==
    {"i8", "i16", "i32", "i64", "u8", "u16", "u32", "u64", "f32", "f64", "bool",
     "char", "cstr", "size", "hex", "oct", "bin", "datetime", "duration"}

\* the algorithm identifiers fossil_algorithm_sort_exec dispatches on
SortKnownAlgorithms ==
    {"auto", "quick", "merge", "heap", "insertion", "shell", "bubble", "counting",
     "radix"}

(***************************************************************************)
(* Claims about fossil_algorithm_sort_exec                                 *)
(***************************************************************************)
\* C1: for every type with a comparator, every algorithm among auto, quick, merge,
\* heap, insertion, shell and bubble, order asc or desc and count >= 2, the call
\* returns 0 and leaves a permutation of the input that is monotonic in the
\* requested order under the type's ordering.
C1_SortedPermutation ==
    (/\ pc = "sorted" /\ base # NULL /\ count >= 2
     /\ type_id \in SortComparatorTypes
     /\ algorithm_id \in {"auto", "quick", "merge", "heap", "insertion", "shell",
                          "bubble"}
     /\ order_id \in {"asc", "desc"})
    => /\ ret = 0
       /\ IsPermutation(mem, mem0)
       /\ Monotonic(type_id, mem, count, order_id = "desc")

\* a heap sort in descending order rearranged a buffer of strings
C1_Witness ==
    /\ pc = "sorted" /\ ret = 0 /\ count >= 3
    /\ type_id = "cstr" /\ algorithm_id = "heap" /\ order_id = "desc"
    /\ mem # mem0
    /\ ~Monotonic(type_id, mem0, count, TRUE)

\* C4: with a non-null buffer, a supported type and a supported algorithm, a call
\* with count 0 or count 1 returns 0 and leaves the buffer unchanged.
C4_TrivialCountsSucceed ==
    (/\ pc = "sorted" /\ base # NULL /\ count <= 1
     /\ type_id \in SortComparatorTypes
     /\ algorithm_id \in SortKnownAlgorithms)
    => (ret = 0 /\ mem = mem0)

\* C5: with a non-null buffer and count >= 2, a type identifier the engine does
\* not resolve yields -2 whatever the algorithm identifier is, a resolved type
\* with an unknown algorithm identifier yields -3, and neither code appears in
\* the other's case.
C5_TypeBeforeAlgorithm ==
    (pc = "sorted" /\ base # NULL /\ count >= 2 /\ type_id # NULL)
    => /\ (ret = -2) <=> (type_id \notin SortComparatorTypes)
       /\ (ret = -3) <=> (/\ type_id \in SortComparatorTypes
                          /\ algorithm_id \notin SortKnownAlgorithms \cup {NULL})

\* both identifiers were wrong at once and the status was the type's
C5_Witness ==
    /\ pc = "sorted" /\ base # NULL /\ count >= 2
    /\ type_id = "notatype" /\ algorithm_id = "notalgo" /\ ret = -2

\* C17: counting sort of a u8 array with count >= 2 returns 0 and leaves a sorted
\* permutation, and its descending result is the reverse of its ascending result
\* on the same input.
C17_CountingU8 ==
    (/\ pc = "sorted" /\ base # NULL /\ count >= 2
     /\ type_id = "u8" /\ algorithm_id = "counting" /\ order_id \in {"asc", "desc"})
    => /\ ret = 0
       /\ IsPermutation(mem, mem0)
       /\ Monotonic("u8", mem, count, order_id = "desc")
       /\ \A a \in fossil_algorithm_sort_exec(base, mem0, count, "u8", "counting", "asc") :
          \A d \in fossil_algorithm_sort_exec(base, mem0, count, "u8", "counting", "desc") :
              a.ret = 0 /\ d.ret = 0 /\ d.mem = Reverse(a.mem)

\* a descending counting sort rearranged bytes spanning the whole range 0..255
C17_Witness ==
    /\ pc = "sorted" /\ ret = 0 /\ count >= 3
    /\ type_id = "u8" /\ algorithm_id = "counting" /\ order_id = "desc"
    /\ mem # mem0
    /\ {0, 255} \subseteq {mem0[k] : k \in DOMAIN mem0}

\* C18: radix sort of a u32 array with count >= 2 terminates with status 0 and a
\* sorted permutation whatever the values are, the largest word included.
C18_RadixU32Terminates ==
    (/\ pc = "sorted" /\ base # NULL /\ count >= 2
     /\ type_id = "u32" /\ algorithm_id = "radix")
    => /\ ret = 0
       /\ IsPermutation(mem, mem0)
       /\ Monotonic("u32", mem, count, order_id = "desc")

\* C19: whenever counting sort on a 1-byte type or radix sort on a 4-byte type
\* returns 0, the buffer is monotonic in the requested order under the
\* comparator of its own type.
C19_RawSortsFollowComparator ==
    (/\ pc = "sorted" /\ ret = 0
     /\ \/ algorithm_id = "counting" /\ type_id \in {"u8", "i8", "char", "bool"}
        \/ algorithm_id = "radix" /\ type_id \in {"u32", "i32", "f32"})
    => Monotonic(type_id, mem, count, order_id = "desc")

\* C20: counting sort on a type that is not 1 byte wide, or radix sort on a type
\* that is not 4 bytes wide, returns the stub's own failure status (neither 0 nor
\* -1, -2, -3) and leaves the buffer as it was.
C20_WidthMismatchFails ==
    (/\ pc = "sorted" /\ base # NULL /\ count >= 1
     /\ type_id \in SortComparatorTypes
     /\ \/ algorithm_id = "counting" /\ fossil_algorithm_sort_type_sizeof(type_id) # 1
        \/ algorithm_id = "radix" /\ fossil_algorithm_sort_type_sizeof(type_id) # 4)
    => /\ ret \notin {0, -1, -2, -3}
       /\ ret = (IF algorithm_id = "counting" THEN -15 ELSE -16)
       /\ mem = mem0

\* counting sort was asked for an unsorted buffer of 4-byte integers and refused
C20_Witness ==
    /\ pc = "sorted" /\ base # NULL /\ count >= 2
    /\ type_id = "i32" /\ algorithm_id = "counting" /\ order_id = "asc"
    /\ ret = -15 /\ mem = mem0
    /\ ~Monotonic("i32", mem0, count, FALSE)

(***************************************************************************)
(* Search engine: a caller holding a buffer and a key calls                *)
(* fossil_algorithm_search_exec                                            *)
(***************************************************************************)
\* the buffers handed to the searches: every short buffer, and the longer ones
\* that lie in ascending or descending order
SearchBuffers(t) ==
    BuffersUpTo(t, MaxCount)
        \cup {s \in UNION {[1 .. k -> ValuesOf(t)] : k \in MaxCount + 1 .. MaxSorted} :
                 Monotonic(t, s, Len(s), FALSE) \/ Monotonic(t, s, Len(s), TRUE)}

InitSearch ==
    /\ pc = "ready"
    /\ type_id \in TypeIds
    /\ base \in {"arr", NULL}
    /\ mem \in (IF base = NULL THEN {<<>>} ELSE SearchBuffers(type_id))
    /\ mem0 = mem
    /\ count = 0
    /\ key = NULL
    /\ keyval = 0
    /\ algorithm_id = NULL
    /\ order_id = NULL
    /\ ret = 0
    /\ probes = {}
    /\ ShuffleIdle
    /\ OptionsIdle
    /\ HeapAvailable
    /\ NoQueries
    /\ InterpolationIdle
    /\ NoThreads

\* idx = fossil_algorithm_search_exec(arr, n, &k, type_id, alg, ord)
SearchExec ==
    /\ pc = "ready"
    /\ \E n \in (IF base = NULL THEN {0, 2} ELSE {Len(mem)}),
          kp \in {"key", NULL}, alg \in SearchAlgorithmIds, ord \in OrderIds :
          \E k \in (IF kp = NULL THEN {0} ELSE KeysOf(type_id)) :
              \E r \in fossil_algorithm_search_exec(base, mem, n, kp, k, type_id, alg, ord) :
                  /\ count' = n
                  /\ key' = kp
                  /\ keyval' = k
                  /\ algorithm_id' = alg
                  /\ order_id' = ord
                  /\ ret' = r.ret
                  /\ probes' = r.probes
    /\ pc' = "searched"
    /\ UNCHANGED <<type_id, base, mem, mem0, shufvars, optvars, nomem, queries, interp, threads>>

NextSearch == SearchExec

SpecSearch == InitSearch /\ [][NextSearch]_vars

(***************************************************************************)
(* Claims about fossil_algorithm_search_exec                               *)
(***************************************************************************)
\* the type identifiers fossil_algorithm_search_exec has a width and a comparator for
SearchComparatorTypes ==
    {"i8", "i16", "i32", "i64", "u8", "u16", "u32", "u64", "f32", "f64", "char",
     "cstr", "bool", "size"}

\* the algorithm identifiers fossil_algorithm_search_exec dispatches on
SearchKnownAlgorithms ==
    {"auto", "linear", "binary", "jump", "interpolation", "exponential", "fibonacci"}

\* the call passed the input validation and the type resolution
SearchResolved ==
    /\ pc = "searched" /\ base # NULL /\ key # NULL /\ count > 0
    /\ type_id \in SearchComparatorTypes

\* the buffer lies in the order the call names
SortedAsRequested ==
    /\ order_id \in {"asc", "desc"}
    /\ Monotonic(type_id, mem, count, order_id = "desc")

\* the indices (C numbering) of the elements equal to the key
Matches == {i \in 0 .. count - 1 : TypeEq(type_id, At(mem, i), keyval)}

\* the result is an index of a match when there is one and -1 when there is none
FoundOrAbsent == IF Matches # {} THEN ret \in Matches ELSE ret = -1

\* C2: on a buffer sorted as requested, exponential search returns the index of an
\* element equal to the key whenever the key is present, and -1 when it is absent.
C2_ExponentialFinds ==
    (SearchResolved /\ algorithm_id = "exponential" /\ SortedAsRequested)
    => FoundOrAbsent

\* C3: interpolation search returns -4 for every supported type other than i32 and
\* i64, without reading the buffer.
C3_InterpolationOnlyI32I64 ==
    (/\ pc = "searched" /\ base # NULL /\ key # NULL /\ count > 0
     /\ type_id # NULL /\ fossil_algorithm_search_type_supported(type_id)
     /\ type_id \notin {"i32", "i64"}
     /\ algorithm_id = "interpolation")
    => (ret = -4 /\ probes = {})

\* C6: the status is resolved in a fixed precedence: invalid input gives -2; then
\* a type without width or comparator gives -3; then an unknown algorithm gives
\* -4; and -1 only comes out of a search that was run.
C6_StatusPrecedence ==
    pc = "searched" =>
        /\ (base = NULL \/ key = NULL \/ count = 0 \/ type_id = NULL) => ret = -2
        /\ (/\ ~(base = NULL \/ key = NULL \/ count = 0 \/ type_id = NULL)
            /\ type_id \notin SearchComparatorTypes) => ret = -3
        /\ (SearchResolved /\ algorithm_id \notin SearchKnownAlgorithms \cup {NULL})
               => ret = -4
        /\ ret = -1 =>
               /\ SearchResolved
               /\ algorithm_id \in SearchKnownAlgorithms \cup {NULL}
               /\ algorithm_id = "interpolation"
                      => fossil_algorithm_search_type_sizeof(type_id) \in {4, 8}
               /\ probes # {}

\* an unknown type met an unknown algorithm and the status was the type's
C6_Witness ==
    /\ pc = "searched" /\ base # NULL /\ key # NULL /\ count > 0
    /\ type_id = "notatype" /\ algorithm_id = "notalgo" /\ ret = -3

\* C7: linear search (also as auto or a null algorithm identifier) returns the
\* lowest index whose element equals the key on any buffer, sorted or not, and -1
\* when no element equals the key.
C7_LinearLowestIndex ==
    (SearchResolved /\ algorithm_id \in {"linear", "auto", NULL})
    => IF Matches = {} THEN ret = -1
       ELSE ret \in Matches /\ \A i \in Matches : ret <= i

\* a linear search found the first of two matches in an unsorted buffer
C7_Witness ==
    /\ SearchResolved /\ algorithm_id = "linear"
    /\ ~Monotonic(type_id, mem, count, FALSE) /\ ~Monotonic(type_id, mem, count, TRUE)
    /\ Cardinality(Matches) >= 2 /\ ret >= 1

\* C8: on a buffer sorted as requested (duplicates allowed, count >= 1), binary
\* and jump search return the index of an element equal to the key when it is
\* present and -1 when it is absent.
C8_BinaryJumpFind ==
    (SearchResolved /\ algorithm_id \in {"binary", "jump"} /\ SortedAsRequested)
    => FoundOrAbsent

\* a jump search found a key in the last block of a descending buffer
C8_Witness ==
    /\ SearchResolved /\ algorithm_id = "jump" /\ SortedAsRequested
    /\ order_id = "desc" /\ count >= 5 /\ ret = count - 1 /\ ret \in Matches

\* C9: on a buffer sorted as requested and every count >= 1, fibonacci search only
\* reads indices in 0 .. count-1 and returns the index of an element equal to the
\* key when it is present and -1 when it is absent.
C9_FibonacciInBounds ==
    (SearchResolved /\ algorithm_id = "fibonacci" /\ SortedAsRequested)
    => (probes \subseteq 0 .. count - 1 /\ FoundOrAbsent)

\* a fibonacci search found the key at index 0 after probing further right
C9_Witness ==
    /\ SearchResolved /\ algorithm_id = "fibonacci" /\ SortedAsRequested
    /\ count >= 3 /\ ret = 0 /\ 0 \in Matches /\ Cardinality(probes) >= 2

\* C10: on an i32 or i64 buffer sorted as requested (duplicates allowed), whose
\* value differences do not overflow, interpolation search returns the index of an
\* element equal to the key when it is present and -1 when it is absent.
C10_InterpolationFinds ==
    (/\ SearchResolved /\ type_id \in {"i32", "i64"}
     /\ algorithm_id = "interpolation" /\ SortedAsRequested)
    => FoundOrAbsent

\* an interpolation search found a key inside a descending buffer after a miss
C10_Witness ==
    /\ SearchResolved /\ type_id = "i64" /\ algorithm_id = "interpolation"
    /\ SortedAsRequested /\ order_id = "desc" /\ count >= 4
    /\ ret \in Matches /\ Cardinality(probes) >= 4

(***************************************************************************)
(* Shuffle engine: a caller holding a buffer calls                         *)
(* fossil_algorithm_shuffle_exec; the loops of the two algorithms advance  *)
(* one iteration at a time. After a call in mode "seeded" with a non-zero  *)
(* seed the caller puts the input back and makes the same call once more.  *)
(***************************************************************************)
\* the buffers the caller shuffles: k <= MaxShuffle elements that run through m
\* consecutive values over and over (pairwise distinct when m = MaxShuffle, with
\* repeated values when m = 2 < k), starting below zero for the signed types
ShuffleBuffers(t) ==
    {[j \in 1 .. k |-> (IF t \in SignedIds THEN -1 ELSE 0) + ((j - 1) % m)] :
        k \in 0 .. MaxShuffle, m \in {2, MaxShuffle}}

InitShuffle ==
    /\ pc = "ready"
    /\ type_id \in TypeIds
    /\ base \in {"arr", NULL}
    /\ mem \in (IF base = NULL THEN {<<>>} ELSE ShuffleBuffers(type_id))
    /\ mem0 = mem
    /\ count = 0
    /\ key = NULL
    /\ keyval = 0
    /\ algorithm_id = NULL
    /\ order_id = NULL
    /\ ret = 0
    /\ probes = {}
    /\ ShuffleIdle
    /\ OptionsIdle
    /\ HeapAvailable
    /\ NoQueries
    /\ InterpolationIdle
    /\ NoThreads

\* fossil_algorithm_shuffle_exec(b, n, type_id, alg, mode, sd) from its entry to
\* the first test of the loop of the algorithm it selects
ShuffleEnter(b, n, alg, mode, sd) ==
    \E r \in fossil_algorithm_shuffle_exec(base, n, type_id, alg, mode, sd) :
        /\ mem' = b
        /\ count' = n
        /\ algorithm_id' = alg
        /\ mode_id' = mode
        /\ seed' = sd
        /\ ret' = r.ret
        /\ clock' = r.clock
        /\ IF r.run = "none"
           THEN pc' = "returned" /\ UNCHANGED <<srand_seed, nrand, loop_i>>
           ELSE /\ srand_seed' = r.seed % WORD
                /\ nrand' = 0
                /\ loop_i' = (IF r.run = "fisher_yates" THEN n - 1 ELSE 1)
                /\ pc' = IF r.run = "fisher_yates"
                         THEN (IF n - 1 > 0 THEN "fisher_yates" ELSE "returned")
                         ELSE (IF 1 < n THEN "inside_out" ELSE "returned")
        /\ UNCHANGED <<type_id, base, mem0, key, keyval, order_id, probes, drawn,
                     optvars, nomem, queries, interp, threads>>

\* status = fossil_algorithm_shuffle_exec(arr, n, type_id, alg, mode, sd)
ShuffleExec ==
    /\ pc = "ready"
    /\ \E n \in (IF base = NULL THEN {0, 2} ELSE {Len(mem)}),
          alg \in ShuffleAlgorithmIds, mode \in ModeIds, sd \in Seeds :
          ShuffleEnter(mem, n, alg, mode, sd)
    /\ UNCHANGED <<call, out1>>

\* one iteration of for (i = count - 1; i > 0; --i)
FisherYatesStep ==
    /\ pc = "fisher_yates"
    /\ \E r \in rand(srand_seed, nrand, drawn) :
          LET size == fossil_algorithm_shuffle_type_sizeof(type_id)
          IN  /\ mem' = ShuffleElems(fossil_algorithm_shuffle_fisher_yates(
                                         ShuffleData(mem, size), loop_i, size, r), size)
              /\ drawn' = drawn \cup {[s |-> srand_seed, k |-> nrand, v |-> r]}
    /\ nrand' = nrand + 1
    /\ loop_i' = loop_i - 1
    /\ pc' = IF loop_i - 1 > 0 THEN "fisher_yates" ELSE "returned"
    /\ UNCHANGED <<type_id, base, mem0, count, key, keyval, algorithm_id, order_id,
                   ret, probes, mode_id, seed, srand_seed, clock, call, out1, optvars,
                   nomem, queries, interp, threads>>

\* one iteration of for (i = 1; i < count; ++i)
InsideOutStep ==
    /\ pc = "inside_out"
    /\ \E r \in rand(srand_seed, nrand, drawn) :
          LET size == fossil_algorithm_shuffle_type_sizeof(type_id)
          IN  /\ mem' = ShuffleElems(fossil_algorithm_shuffle_inside_out(
                                         ShuffleData(mem, size), loop_i, size, r), size)
              /\ drawn' = drawn \cup {[s |-> srand_seed, k |-> nrand, v |-> r]}
    /\ nrand' = nrand + 1
    /\ loop_i' = loop_i + 1
    /\ pc' = IF loop_i + 1 < count THEN "inside_out" ELSE "returned"
    /\ UNCHANGED <<type_id, base, mem0, count, key, keyval, algorithm_id, order_id,
                   ret, probes, mode_id, seed, srand_seed, clock, call, out1, optvars,
                   nomem, queries, interp, threads>>

\* the caller keeps the result, restores the input and repeats a call made in
\* mode seeded with a seed of its own
ShuffleAgain ==
    /\ pc = "returned" /\ call = 1 /\ mode_id = "seeded" /\ seed # 0
    /\ ShuffleEnter(mem0, count, algorithm_id, mode_id, seed)
    /\ call' = 2
    /\ out1' = mem

NextShuffle == ShuffleExec \/ FisherYatesStep \/ InsideOutStep \/ ShuffleAgain

SpecShuffle == InitShuffle /\ [][NextShuffle]_vars

(***************************************************************************)
(* Claims about fossil_algorithm_shuffle_exec                              *)
(***************************************************************************)
\* the type identifiers fossil_algorithm_shuffle_exec resolves a width for
ShuffleTypes ==
    {"i8", "i16", "i32", "i64", "u8", "u16", "u32", "u64", "f32", "f64", "bool",
     "char", "cstr", "size", "hex", "oct", "bin", "datetime", "duration", "any",
     "null"}

\* the algorithm identifiers fossil_algorithm_shuffle_exec dispatches on
ShuffleKnownAlgorithms == {"auto", "fisher-yates", "inside-out"}

\* the index the loop of the running algorithm had at its k-th rand() call
ShuffleIndexAt(k) ==
    IF algorithm_id = "inside-out" THEN k + 1 ELSE count - 1 - k

\* some rand() call of the running shuffle selected a position other than the
\* loop index
ShuffleMoved ==
    \E r \in drawn : /\ r.s = srand_seed /\ r.k < nrand
                     /\ r.v % (ShuffleIndexAt(r.k) + 1) # ShuffleIndexAt(r.k)

\* the elements of s are pairwise distinct
PairwiseDistinct(s) == \A a, b \in DOMAIN s : a # b => s[a] # s[b]

\* C11: for every supported type, every algorithm among auto, fisher-yates and
\* inside-out, every mode and every sequence of random draws, the buffer holds
\* the same multiset of elements as the input after each swap and at return.
C11_ShufflePermutes ==
    (/\ pc \in {"fisher_yates", "inside_out", "returned"}
     /\ type_id \in ShuffleTypes
     /\ algorithm_id \in ShuffleKnownAlgorithms \cup {NULL})
    => IsPermutation(mem, mem0)

\* a Fisher-Yates shuffle of 8-byte elements is under way and has moved elements
C11_Witness ==
    /\ pc = "fisher_yates" /\ type_id = "i64" /\ algorithm_id = "fisher-yates"
    /\ count >= 3 /\ nrand >= 1 /\ mem # mem0

\* C12: the status is -1 for a null buffer, a zero count or a null type id;
\* otherwise -2 for a type without width; otherwise -3 for an unknown algorithm
\* identifier; otherwise 0; and a call that fails leaves the buffer as it was.
C12_ShuffleStatusPrecedence ==
    pc = "returned"
    => /\ ret = (IF base = NULL \/ count = 0 \/ type_id = NULL THEN -1
                 ELSE IF type_id \notin ShuffleTypes THEN -2
                 ELSE IF algorithm_id \notin ShuffleKnownAlgorithms \cup {NULL} THEN -3
                 ELSE 0)
       /\ (ret # 0 => mem = mem0)

\* a call with both an unknown type and an unknown algorithm returned -2
C12_Witness ==
    /\ pc = "returned" /\ base # NULL /\ count >= 2
    /\ type_id = "notatype" /\ algorithm_id = "notalgo" /\ ret = -2 /\ mem = mem0

\* C13: in mode seeded with a non-zero seed the clock is not read, and the call
\* repeated on the same input with the same arguments leaves the same buffer.
C13_SeededDeterministic ==
    (pc = "returned" /\ mode_id = "seeded" /\ seed # 0)
    => /\ ~clock
       /\ (call = 2 => mem = out1)

\* the repeated seeded call returned after both calls rearranged the buffer
C13_Witness ==
    /\ pc = "returned" /\ call = 2 /\ mode_id = "seeded" /\ seed # 0 /\ ret = 0
    /\ count >= 3 /\ mem = out1 /\ mem # mem0

TestArrays == {<<3, 1, 4, 1, 5, 9>>}

\* arrays of int just below, at and just above the count at which
\* fossil_algorithm_sort_auto leaves insertion sort
LongArrays ==
    {SubSeq([p \in 1 .. k |-> ((5 * p) % 7) - 1], 1, k) :
        k \in {AUTO_THRESHOLD - 1, AUTO_THRESHOLD, AUTO_THRESHOLD + 1}}

InitSortOptions ==
    /\ pc = "ready"
    /\ type_id = "i32"
    /\ base \in {"arr", NULL}
    /\ mem \in (IF base = NULL THEN {<<>>}
                ELSE BuffersUpTo(type_id, MaxCount) \cup TestArrays \cup LongArrays)
    /\ mem0 = mem
    /\ count = 0
    /\ key = NULL
    /\ keyval = 0
    /\ algorithm_id = NULL
    /\ order_id = NULL
    /\ ret = 0
    /\ probes = {}
    /\ ShuffleIdle
    /\ OptionsIdle
    /\ HeapAvailable
    /\ NoQueries
    /\ InterpolationIdle
    /\ NoThreads

\* status = fossil_algorithm_sort_<f>(arr, n, sizeof(int), cmp, options); the
\* long arrays are handed to fossil_algorithm_sort_auto only
SortOptionsCall ==
    /\ pc = "ready"
    /\ \E n \in (IF base = NULL THEN {0, 2} ELSE {Len(mem)}),
          f \in (IF mem \in LongArrays THEN {"auto"} ELSE SortFunctions \cup {"auto"}),
          cmp \in CompareFns, options \in SortOptions :
          LET r == CallSort(f, base, mem, n, cmp, options)
          IN  /\ count' = n
              /\ sort_fn' = f
              /\ cmp_fn' = cmp
              /\ opts' = options
              /\ ret' = r.ret
              /\ mem' = r.mem
              /\ ran' = (IF f = "auto" THEN r.ran ELSE f)
    /\ pc' = "sorted"
    /\ UNCHANGED <<type_id, base, mem0, key, keyval, algorithm_id, order_id, probes,
                   shufvars, nomem, queries, interp, threads>>

NextSortOptions == SortOptionsCall

SpecSortOptions == InitSortOptions /\ [][NextSortOptions]_vars

(***************************************************************************)
(* Claims about the sorts taking a comparator and options                  *)
(***************************************************************************)
\* the array after the call is non-decreasing
NonDecreasing(s) == \A p \in 1 .. Len(s) - 1 : s[p] <= s[p + 1]

\* the array after the call is non-increasing
NonIncreasing(s) == \A p \in 1 .. Len(s) - 1 : s[p] >= s[p + 1]

\* the options ask for descending order
AsksDescending == opts.ptr # NULL /\ opts.order = FOSSIL_SORT_DESCENDING

\* C15: fossil_algorithm_sort_quick called with a comparator that itself orders
\* descending together with options.order == FOSSIL_SORT_DESCENDING leaves the
\* array in non-increasing order; {3,1,4,1,5,9} becomes {9,5,4,3,1,1}
C15_QuickDescendingComparator ==
    (pc = "sorted" /\ sort_fn = "quick" /\ cmp_fn = "cpp_cmp_int_desc"
       /\ base # NULL /\ AsksDescending)
    => /\ NonIncreasing(mem)
       /\ mem0 = <<3, 1, 4, 1, 5, 9>> => mem = <<9, 5, 4, 3, 1, 1>>

AllocationSites ==
    {"merge.L", "merge.R", "heapify.tmp", "heap.tmp", "insertion.tmp", "shell.tmp",
     "bubble.tmp", "counting.count_arr", "radix.output"}

\* the element types of the arrays sorted on the exhausted heap
AllocationTypes == {"i32", "u8", "u32", "cstr"}

InitSortAlloc ==
    /\ pc = "ready"
    /\ type_id \in AllocationTypes
    /\ base \in {"arr", NULL}
    /\ mem \in BuffersUpTo(type_id, IF base = NULL THEN 0 ELSE MaxCount)
    /\ mem0 = mem
    /\ count = 0
    /\ key = NULL
    /\ keyval = 0
    /\ algorithm_id = NULL
    /\ order_id = NULL
    /\ ret = 0
    /\ probes = {}
    /\ ShuffleIdle
    /\ OptionsIdle
    /\ nomem \in {{site} : site \in AllocationSites} \cup {AllocationSites}
    /\ NoQueries
    /\ InterpolationIdle
    /\ NoThreads

SpecSortAlloc == InitSortAlloc /\ [][NextSort]_vars

\* the allocation sites the algorithm alg reaches on an array of two or more
\* elements of width type_size
SitesReached(alg, type_size) ==
    CASE alg = "merge"     -> {"merge.L", "merge.R"}
      [] alg = "heap"      -> {"heapify.tmp", "heap.tmp"}
      [] alg = "insertion" -> {"insertion.tmp"}
      [] alg = "shell"     -> {"shell.tmp"}
      [] alg = "bubble"    -> {"bubble.tmp"}
      [] alg = "counting"  -> IF type_size = 1 THEN {"counting.count_arr"} ELSE {}
      [] alg = "radix"     -> IF type_size = 4 THEN {"radix.output"} ELSE {}
      [] OTHER             -> {}

\* the call that returned ran an algorithm in which a scratch allocation failed
AllocationFailed ==
    /\ pc = "sorted" /\ base # NULL /\ count >= 2
    /\ fossil_sort_select_comparator(type_id) # NULL
    /\ SitesReached(algorithm_id, fossil_algorithm_sort_type_sizeof(type_id))
           \cap nomem # {}

\* C21: whenever a scratch allocation fails during fossil_algorithm_sort_exec
\* (merge, heap, insertion, shell, bubble, counting, radix) the status is non-zero
\* and is not the unknown-algorithm code -3
C21_AllocationFailureReported ==
    AllocationFailed => ret # 0 /\ ret # -3

(***************************************************************************)
(* Type registry: a caller asks the engines for the width of a type and    *)
(* whether they support it                                                 *)
(***************************************************************************)
\* most calls a caller makes
MaxQueries == 2

Engines == {"sort", "search", "shuffle"}

\* fossil_algorithm_<engine>_type_sizeof(t)
type_sizeof(engine, t) ==
    CASE engine = "sort"    -> fossil_algorithm_sort_type_sizeof(t)
      [] engine = "search"  -> fossil_algorithm_search_type_sizeof(t)
      [] engine = "shuffle" -> fossil_algorithm_shuffle_type_sizeof(t)

\* fossil_algorithm_<engine>_type_supported(t)
type_supported(engine, t) ==
    CASE engine = "sort"    -> fossil_algorithm_sort_type_supported(t)
      [] engine = "search"  -> fossil_algorithm_search_type_supported(t)
      [] engine = "shuffle" -> fossil_algorithm_shuffle_type_supported(t)

InitTypes ==
    /\ pc = "ready"
    /\ type_id = NULL
    /\ base = NULL
    /\ mem = <<>>
    /\ mem0 = mem
    /\ count = 0
    /\ key = NULL
    /\ keyval = 0
    /\ algorithm_id = NULL
    /\ order_id = NULL
    /\ ret = 0
    /\ probes = {}
    /\ ShuffleIdle
    /\ OptionsIdle
    /\ HeapAvailable
    /\ NoQueries
    /\ InterpolationIdle
    /\ NoThreads

\* size = fossil_algorithm_<engine>_type_sizeof(t);
\* supported = fossil_algorithm_<engine>_type_supported(t);
TypeQuery ==
    /\ Cardinality(queries) < MaxQueries
    /\ \E engine \in Engines, t \in TypeIds :
          /\ type_id' = t
          /\ queries' = queries \cup {[engine |-> engine, type_id |-> t,
                                       size |-> type_sizeof(engine, t),
                                       supported |-> type_supported(engine, t)]}
    /\ UNCHANGED <<pc, base, mem, mem0, count, key, keyval, algorithm_id, order_id,
                   ret, probes, shufvars, optvars, nomem, interp, threads>>

NextTypes == TypeQuery

SpecTypes == InitTypes /\ [][NextTypes]_vars

(***************************************************************************)
(* Claims about the type registry                                          *)
(***************************************************************************)
\* the identifiers every engine gives a width
CoreTypeIds ==
    {"i8", "i16", "i32", "i64", "u8", "u16", "u32", "u64", "f32", "f64",
     "cstr", "char", "bool", "size", "hex", "oct", "bin"}

\* the width in bytes of the C type an identifier stands for (LP64: pointers and
\* size_t are 8 bytes wide)
ElementWidth(t) ==
    CASE t \in {"i8", "u8", "char", "bool"} -> 1
      [] t \in {"i16", "u16"}               -> 2
      [] t \in {"i32", "u32", "f32"}        -> 4
      [] OTHER                              -> 8

AsksStable == opts.ptr # NULL /\ opts.stable = FOSSIL_SORT_STABLE

\* a NULL options pointer is treated as ascending and unstable: the call leaves
\* what the same call with the default options leaves
NullOptionsAreDefault ==
    opts.ptr = NULL
    => LET r == fossil_algorithm_sort_auto(base, mem0, count, cmp_fn,
                                           FOSSIL_SORT_DEFAULT_OPTIONS)
       IN  mem = r.mem /\ ret = r.ret /\ ran = r.ran

\* C23: fossil_algorithm_sort_auto dispatches to merge sort whenever
\* options->stable is FOSSIL_SORT_STABLE, also for count < 32; otherwise to
\* insertion sort when count < 32 and to quicksort when count >= 32; a NULL
\* options pointer is treated as ascending and unstable; count <= 1 returns 0
\* without dispatch.
C23_AutoStabilityFirst ==
    (pc = "sorted" /\ sort_fn = "auto")
    => /\ ran = (IF count <= 1 THEN "none"
                 ELSE IF AsksStable THEN "merge"
                 ELSE IF count < 32 THEN "insertion"
                 ELSE "quick")
       /\ count <= 1 => ret = 0 /\ mem = mem0
       /\ NullOptionsAreDefault

\* C23, as the code has it: fossil_algorithm_sort_auto dispatches to insertion
\* sort whenever count < 32, also when options->stable is FOSSIL_SORT_STABLE;
\* for count >= 32 to merge sort when options->stable is FOSSIL_SORT_STABLE and
\* to quicksort otherwise; a NULL options pointer is treated as ascending and
\* unstable; count <= 1 returns 0 without dispatch.
C23_AutoSizeFirst ==
    (pc = "sorted" /\ sort_fn = "auto")
    => /\ ran = (IF count <= 1 THEN "none"
                 ELSE IF count < 32 THEN "insertion"
                 ELSE IF AsksStable THEN "merge"
                 ELSE "quick")
       /\ count <= 1 => ret = 0 /\ mem = mem0
       /\ NullOptionsAreDefault

\* an auto sort of 32 ints with a stable sort requested ran merge sort
C23_Witness ==
    /\ pc = "sorted" /\ sort_fn = "auto" /\ cmp_fn = "cpp_cmp_int_asc"
    /\ count = 32 /\ AsksStable /\ ran = "merge" /\ ret = 0
    /\ NonDecreasing(mem) /\ mem # mem0

(***************************************************************************)
(* Stability of the two merge sorts: a caller holding an array of ints or  *)
(* of strings calls fossil_algorithm_sort_exec or one of the sorts taking  *)
(* a comparator and options                                                *)
(***************************************************************************)
\* the element types of the arrays handed to both interfaces
MergeTypes == {"i32", "cstr"}

InitMergeSort ==
    /\ pc = "ready"
    /\ type_id \in MergeTypes
    /\ base \in {"arr", NULL}
    /\ mem \in BuffersUpTo(type_id, IF base = NULL THEN 0 ELSE MaxCount)
    /\ mem0 = mem
    /\ count = 0
    /\ key = NULL
    /\ keyval = 0
    /\ algorithm_id = NULL
    /\ order_id = NULL
    /\ ret = 0
    /\ probes = {}
    /\ ShuffleIdle
    /\ OptionsIdle
    /\ HeapAvailable
    /\ NoQueries
    /\ InterpolationIdle
    /\ NoThreads

NextMergeSort == SortExec \/ SortOptionsCall

SpecMergeSort == InitMergeSort /\ [][NextMergeSort]_vars

\* the elements of s that the comparison ties with v, in the order they have in s
TiedWithExec(s, v) ==
    SelectSeq(s, LAMBDA x : SortCall(fossil_sort_select_comparator(type_id), x, v, FALSE) = 0)

TiedWithOptions(s, v) ==
    SelectSeq(s, LAMBDA x : CompareWithOptions(cmp_fn, x, v, opts) = 0)

\* fossil_algorithm_sort_exec ran the "merge" algorithm on the array
ExecMergeRan == pc = "sorted" /\ algorithm_id = "merge" /\ ret = 0

\* fossil_algorithm_sort_merge ran on the array
OptionsMergeRan ==
    pc = "sorted" /\ ran = "merge" /\ cmp_fn # NULL /\ base # NULL /\ count >= 2

\* C24: merge sort is stable in both implementations, fossil_algorithm_sort_merge
\* and the "merge" algorithm of fossil_algorithm_sort_exec, ascending and
\* descending: elements that compare equal keep the relative order they had in
\* the input
C24_MergeSortStable ==
    /\ ExecMergeRan
       => \A p \in DOMAIN mem0 : TiedWithExec(mem, mem0[p]) = TiedWithExec(mem0, mem0[p])
    /\ OptionsMergeRan
       => \A p \in DOMAIN mem0 :
              TiedWithOptions(mem, mem0[p]) = TiedWithOptions(mem0, mem0[p])

\* a descending merge sort by tens moved 2 and 0, which tie, behind nothing and
\* -1 behind both, and left 2 before 0
C24_Witness ==
    /\ OptionsMergeRan /\ sort_fn = "merge" /\ cmp_fn = "cmp_int_by_tens"
    /\ opts.ptr # NULL /\ opts.order = FOSSIL_SORT_DESCENDING
    /\ mem0 = <<-1, 2, 0, 2>> /\ mem = <<2, 0, 2, -1>>

\* fossil_algorithm_sort_exec sorted a null string, "a" and "" with "merge": the
\* null string stays before the empty one
C24_WitnessExec ==
    /\ ExecMergeRan /\ type_id = "cstr" /\ order_id = "asc"
    /\ mem0 = <<0, 2, 1>> /\ mem = <<0, 1, 2>>

(***************************************************************************)
(* search_interpolation, one evaluation of the loop at a time:             *)
(* fossil_algorithm_search_exec has resolved an i32 or i64 buffer and the  *)
(* "interpolation" algorithm and calls it.                                 *)
(***************************************************************************)
\* the element values: the ones of the other searches and the two ends of the range
InterpolationValues == {0 - (WORD \div 2), -1, 0, 2, (WORD \div 2) - 1}

InterpolationKeys == InterpolationValues \cup {1}

InterpolationTypes == {"i32", "i64"}

\* a caller holding a buffer of at most longest elements of one of the types
InterpolationStart(types, values, longest) ==
    /\ pc = "ready"
    /\ type_id \in types
    /\ base \in {"arr", NULL}
    /\ mem \in (IF base = NULL THEN {<<>>}
                ELSE UNION {[1 .. n -> values] : n \in 0 .. longest})
    /\ mem0 = mem
    /\ count = 0
    /\ key = NULL
    /\ keyval = 0
    /\ algorithm_id = NULL
    /\ order_id = NULL
    /\ ret = 0
    /\ probes = {}
    /\ ShuffleIdle
    /\ OptionsIdle
    /\ HeapAvailable
    /\ NoQueries
    /\ InterpolationIdle
    /\ NoThreads

InitInterpolation ==
    InterpolationStart(InterpolationTypes, InterpolationValues, MaxCount)

\* search_interpolation(base, count, key, size, cmp, desc) up to the loop:
\* if (count == 0 || !base || !key) return -2; low = 0, high = count - 1
InterpolationEnter ==
    /\ pc = "ready"
    /\ \E k \in InterpolationKeys, ord \in OrderIds,
          ub \in NegativeToSize, so \in SignedOverflow :
          /\ count' = Len(mem)
          /\ key' = "key"
          /\ keyval' = k
          /\ algorithm_id' = "interpolation"
          /\ order_id' = ord
          /\ probes' = {}
          /\ IF Len(mem) = 0 \/ base = NULL
             THEN /\ pc' = "searched"
                  /\ ret' = -2
                  /\ interp' = interp
             ELSE /\ pc' = "loop"
                  /\ ret' = ret
                  /\ interp' = [low |-> 0, high |-> Len(mem) - 1, pos |-> 0,
                                bodies |-> 0, ub |-> ub, so |-> so]
    /\ UNCHANGED <<type_id, base, mem, mem0, shufvars, optvars, nomem, queries,
                   threads>>

\* the evaluation of the while condition and of the loop body that follows
InterpolationIterResult ==
    LET size == fossil_algorithm_search_type_sizeof(type_id)
    IN  search_interpolation_iter(
            mem, InterpolationView(type_id, mem, count, size), keyval,
            IF size = 4 THEN AsI32(type_id, keyval) ELSE AsI64(type_id, keyval),
            fossil_search_select_comparator(type_id),
            order_id # NULL /\ order_id = "desc",
            interp.low, interp.high, interp.ub, interp.so, SizeWord(size), count)

\* one turn of the while loop: the function returns, or the body ends with a
\* new low or high
InterpolationIter ==
    /\ pc = "loop"
    /\ LET it == InterpolationIterResult
       IN  /\ probes' = probes \cup it.probes
           /\ IF it.stop
              THEN /\ pc' = "searched"
                   /\ ret' = it.ret
                   /\ interp' = interp
              ELSE /\ pc' = "loop"
                   /\ ret' = ret
                   /\ interp' = [interp EXCEPT !.low = it.low, !.high = it.high,
                                               !.pos = it.pos, !.bodies = @ + 1]
    /\ UNCHANGED <<type_id, base, mem, mem0, count, key, keyval, algorithm_id,
                   order_id, shufvars, optvars, nomem, queries,
                   threads>>

NextInterpolation == InterpolationEnter \/ InterpolationIter

SpecInterpolation == InitInterpolation /\ [][NextInterpolation]_vars

\* longest buffer of the searches followed to their end
MaxBracket == 3

\* their element values: the two ends of the range and one in between
BracketValues == {0 - (WORD \div 2), 0, (WORD \div 2) - 1}

InitInterpolationRuns == InterpolationStart({"i32"}, BracketValues, MaxBracket)

\* the function runs on: every statement of the loop is executed in the end
SpecInterpolationRuns ==
    InitInterpolationRuns /\ [][NextInterpolation]_vars /\ WF_vars(InterpolationIter)

\* the loop body ran to its end: search_interpolation did not return or break
BodyCompleted == pc = "loop" /\ pc' = "loop" /\ interp'.bodies = interp.bodies + 1

\* C25: search_interpolation terminates on every input (sorted or unsorted array,
\* any key, count >= 1, constant ranges with arr[low] == arr[high] included): each
\* loop iteration returns, breaks or strictly shrinks the bracket high - low, and
\* high = pos - 1 is never computed with pos == 0.
C25_InterpolationTerminates ==
    /\ [][BodyCompleted =>
            /\ interp'.high - interp'.low < interp.high - interp.low
            /\ interp'.high # interp.high => interp'.pos # 0
            /\ interp'.high < count]_vars
    /\ (pc = "loop") ~> (pc = "searched")

\* the search went through the loop body twice on an unsorted array and returned
C25_Witness ==
    /\ pc = "searched" /\ algorithm_id = "interpolation" /\ count >= 3
    /\ interp.bodies >= 2
    /\ ~Monotonic(type_id, mem, count, FALSE) /\ ~Monotonic(type_id, mem, count, TRUE)

\* a search over a constant range returned from the loop
C25_WitnessConstantRange ==
    /\ pc = "searched" /\ algorithm_id = "interpolation" /\ count >= 2
    /\ interp.bodies >= 1 /\ interp.low < interp.high
    /\ At(mem, interp.low) = At(mem, interp.high) /\ ret = -1

\* a value of int32_t
InInt32(d) == 0 - (WORD \div 2) <= d /\ d <= (WORD \div 2) - 1

\* the running search is about to estimate pos: the while condition holds and
\* arr[high] differs from arr[low]
AtEstimate ==
    /\ pc = "loop" /\ interp.low <= interp.high /\ interp.high < count
    /\ IF order_id # NULL /\ order_id = "desc"
       THEN keyval <= At(mem, interp.low) /\ keyval >= At(mem, interp.high)
       ELSE keyval >= At(mem, interp.low) /\ keyval <= At(mem, interp.high)
    /\ At(mem, interp.high) # At(mem, interp.low)

\* C26: in search_interpolation on i32 the subtractions k - arr[low] and
\* arr[high] - arr[low] stay within the signed 32-bit range for every sorted array
\* and key (arr[low] = INT32_MIN and arr[high] = INT32_MAX included), so the
\* estimated position satisfies low <= pos <= high and a key that is present is
\* found rather than reported as -1.
C26_InterpolationInRange ==
    (type_id = "i32" /\ algorithm_id = "interpolation" /\ SortedAsRequested)
    => /\ AtEstimate
          => /\ InInt32(keyval - At(mem, interp.low))
             /\ InInt32(At(mem, interp.high) - At(mem, interp.low))
       /\ (pc = "loop" /\ interp.bodies > 0)
          => (interp.low <= interp.pos + 1 /\ interp.pos <= interp.high + 1)
       /\ (SearchResolved /\ Matches # {}) => ret \in Matches

\* the search of 0 in {INT32_MIN, 0, INT32_MAX} returned -1
C26_PresentKeyMissed ==
    /\ SearchResolved /\ type_id = "i32" /\ algorithm_id = "interpolation"
    /\ order_id = "asc" /\ mem = <<0 - (WORD \div 2), 0, (WORD \div 2) - 1>>
    /\ keyval = 0 /\ ret = -1

(***************************************************************************)
(* Shuffle engine called from two threads: each thread calls               *)
(* fossil_algorithm_shuffle_exec in mode "seeded" on a buffer of its own.  *)
(* First each call runs with no other call beside it, one after the other; *)
(* then the caller puts the inputs back and the two threads make the same  *)
(* calls at the same time. srand and each loop iteration (a rand call and  *)
(* a swap) are taken as one step each.                                     *)
(***************************************************************************)
\* longest buffer a thread shuffles
MaxInterleaved == 2

\* the buffers of the threads: two or more pairwise distinct elements
ThreadBuffers == {[j \in 1 .. k |-> j - 1] : k \in 2 .. MaxInterleaved}

\* the calls the threads make: a buffer, an algorithm and a non-zero seed
ThreadCalls ==
    [at : {"call"}, alg : {"fisher-yates", "inside-out"}, seed : Seeds \ {0},
     input : ThreadBuffers, data : ThreadBuffers, i : {0}, alone : {<<>>}]

InitShuffleThreads ==
    /\ pc = "alone"
    /\ type_id \in {"u8", "i32"}
    /\ base = "arr"
    /\ mem = <<>>
    /\ mem0 = mem
    /\ count = 0
    /\ key = NULL
    /\ keyval = 0
    /\ algorithm_id = NULL
    /\ order_id = NULL
    /\ ret = 0
    /\ probes = {}
    /\ ShuffleIdle
    /\ OptionsIdle
    /\ HeapAvailable
    /\ NoQueries
    /\ InterpolationIdle
    /\ threads \in {th \in [1 .. 2 -> ThreadCalls] :
                       \A t \in 1 .. 2 : th[t].data = th[t].input}

\* the thread may take a step: alone, the first thread runs to its return before
\* the second starts
Runnable(t) ==
    IF pc = "alone"
    THEN \/ t = 1 /\ threads[1].at # "returned"
         \/ t = 2 /\ threads[1].at = "returned" /\ threads[2].at # "returned"
    ELSE pc = "together"

\* fossil_algorithm_shuffle_exec(data, n, type_id, alg, "seeded", seed) in thread t
\* from its entry to the first test of the loop: srand(seed) sets the generator
\* of the process
ThreadCall(t) ==
    /\ Runnable(t) /\ threads[t].at = "call"
    /\ LET f == threads[t]
           n == Len(f.data)
       IN  \E r \in fossil_algorithm_shuffle_exec(base, n, type_id, f.alg, "seeded", f.seed) :
               /\ srand_seed' = r.seed % WORD
               /\ nrand' = 0
               /\ threads' = [threads EXCEPT
                      ![t].i  = (IF r.run = "fisher_yates" THEN n - 1 ELSE 1),
                      ![t].at = (IF r.run = "fisher_yates"
                                 THEN (IF n - 1 > 0 THEN "loop" ELSE "returned")
                                 ELSE (IF 1 < n THEN "loop" ELSE "returned"))]
    /\ UNCHANGED <<pc, type_id, base, mem, mem0, count, key, keyval, algorithm_id,
                   order_id, ret, probes, mode_id, seed, loop_i, drawn, clock, call,
                   out1, optvars, nomem, queries, interp>>

\* one iteration of the loop of the algorithm of thread t: rand() reads and
\* advances the generator of the process
ThreadStep(t) ==
    /\ Runnable(t) /\ threads[t].at = "loop"
    /\ LET f    == threads[t]
           size == fossil_algorithm_shuffle_type_sizeof(type_id)
           fy   == f.alg = "fisher-yates"
       IN  \E r \in rand(srand_seed, nrand, drawn) :
               /\ drawn' = drawn \cup {[s |-> srand_seed, k |-> nrand, v |-> r]}
               /\ threads' = [threads EXCEPT
                      ![t].data = ShuffleElems(
                          IF fy
                          THEN fossil_algorithm_shuffle_fisher_yates(
                                   ShuffleData(f.data, size), f.i, size, r)
                          ELSE fossil_algorithm_shuffle_inside_out(
                                   ShuffleData(f.data, size), f.i, size, r), size),
                      ![t].i  = (IF fy THEN f.i - 1 ELSE f.i + 1),
                      ![t].at = (IF fy
                                 THEN (IF f.i - 1 > 0 THEN "loop" ELSE "returned")
                                 ELSE (IF f.i + 1 < Len(f.data) THEN "loop"
                                       ELSE "returned"))]
    /\ nrand' = nrand + 1
    /\ UNCHANGED <<pc, type_id, base, mem, mem0, count, key, keyval, algorithm_id,
                   order_id, ret, probes, mode_id, seed, loop_i, srand_seed, clock,
                   call, out1, optvars, nomem, queries, interp>>

\* both calls have returned: the caller keeps what each left, puts the inputs
\* back and has the two threads make the same calls at the same time
ThreadsTogether ==
    /\ pc = "alone" /\ \A t \in 1 .. 2 : threads[t].at = "returned"
    /\ pc' = "together"
    /\ threads' = [t \in 1 .. 2 |->
                      [threads[t] EXCEPT !.at = "call", !.alone = threads[t].data,
                                         !.data = threads[t].input, !.i = 0]]
    /\ UNCHANGED <<type_id, base, mem, mem0, count, key, keyval, algorithm_id,
                   order_id, ret, probes, shufvars, optvars, nomem, queries, interp>>

NextShuffleThreads ==
    \/ \E t \in 1 .. 2 : ThreadCall(t)
    \/ \E t \in 1 .. 2 : ThreadStep(t)
    \/ ThreadsTogether

SpecShuffleThreads == InitShuffleThreads /\ [][NextShuffleThreads]_vars

\* the two calls made at the same time have returned
BothReturned == pc = "together" /\ \A t \in 1 .. 2 : threads[t].at = "returned"

\* C27: the generator state a fossil_algorithm_shuffle_exec call consumes is
\* private to the call: two calls in mode seeded with non-zero seeds that run
\* interleaved on different buffers each leave the buffer they leave when run
\* alone with the same arguments.
C27_GeneratorPrivate ==
    BothReturned => \A t \in 1 .. 2 : threads[t].data = threads[t].alone

\* two Fisher-Yates calls with different seeds ran interleaved, and the first
\* left another buffer than it leaves alone
C27_OutputDependsOnOtherCall ==
    /\ BothReturned
    /\ threads[1].alg = "fisher-yates" /\ threads[2].alg = "fisher-yates"
    /\ threads[1].seed # threads[2].seed
    /\ threads[1].data # threads[1].alone
    /\ threads[2].data = threads[2].alone

(***************************************************************************)
(* The typed comparators of sort.c and search.c, called on two elements of *)
(* a type in either direction and either argument order                    *)
(***************************************************************************)
\* most calls of a comparator kept side by side
MaxCompared == 2

\* the comparator the engine selects for the type, or NULL
select_comparator(engine, t) ==
    IF engine = "sort" THEN fossil_sort_select_comparator(t)
    ELSE fossil_search_select_comparator(t)

\* cmp(a, b, desc) through the function pointer the engine selected
CompareCall(engine, cmp, a, b, desc) ==
    IF engine = "sort" THEN SortCall(cmp, a, b, desc) ELSE SearchCall(cmp, a, b, desc)

\* the type identifiers some engine has a comparator for
ComparedTypes ==
    {t \in RecognizedTypeIds :
        \E engine \in {"sort", "search"} : select_comparator(engine, t) # NULL}

InitCompare ==
    /\ pc = "ready"
    /\ type_id \in ComparedTypes
    /\ base = "arr"
    /\ mem \in [1 .. 2 -> ValuesOf(type_id) \cup KeysOf(type_id)]
    /\ mem0 = mem
    /\ count = 2
    /\ key = NULL
    /\ keyval = 0
    /\ algorithm_id = NULL
    /\ order_id = NULL
    /\ ret = 0
    /\ probes = {}
    /\ ShuffleIdle
    /\ OptionsIdle
    /\ HeapAvailable
    /\ NoQueries
    /\ InterpolationIdle
    /\ NoThreads

\* res = cmp(&arr[x], &arr[y], desc) with the comparator of an engine
Compare ==
    /\ pc = "ready"
    /\ Cardinality(queries) < MaxCompared
    /\ \E engine \in {"sort", "search"}, x \in 1 .. 2, desc \in BOOLEAN :
          LET cmp == select_comparator(engine, type_id)
              a   == mem[x]
              b   == mem[3 - x]
          IN  /\ cmp # NULL
              /\ ret' = CompareCall(engine, cmp, a, b, desc)
              /\ queries' = queries \cup {[engine |-> engine, a |-> a, b |-> b,
                                           desc |-> desc, res |-> ret']}
    /\ UNCHANGED <<pc, type_id, base, mem, mem0, count, key, keyval, algorithm_id,
                   order_id, probes, shufvars, optvars, nomem, interp, threads>>

NextCompare == Compare

SpecCompare == InitCompare /\ [][NextCompare]_vars

\* the sign of a comparison result
SignOf(r) == IF r < 0 THEN -1 ELSE IF r > 0 THEN 1 ELSE 0

\* C28: for every typed comparator of sort.c and search.c and all element values
\* a and b (no NaN): the sign of cmp(a, b, desc = true) is the opposite of the
\* sign of cmp(a, b, desc = false), the sign of cmp(a, b, d) is the opposite of
\* the sign of cmp(b, a, d), and cmp(a, b, d) is 0 exactly when a equals b; bool
\* orders false before true ascending and a null cstr pointer compares equal to
\* the empty string.
C28_ComparatorLaws ==
    /\ \A q \in queries :
          /\ (q.res = 0) <=> TypeEq(type_id, q.a, q.b)
          /\ (type_id = "bool" /\ ~q.desc /\ q.a = 0 /\ q.b = 1) => q.res < 0
          /\ (type_id = "cstr" /\ q.a = 0 /\ StrOf(q.b) = <<>>) => q.res = 0
    /\ \A q1, q2 \in queries :
          q1.engine = q2.engine
          => /\ (q1.a = q2.a /\ q1.b = q2.b /\ q1.desc /\ ~q2.desc)
                => SignOf(q1.res) = 0 - SignOf(q2.res)
             /\ (q1.a = q2.b /\ q1.b = q2.a /\ q1.desc = q2.desc)
                => SignOf(q1.res) = 0 - SignOf(q2.res)

\* compare_bool of sort.c put false before true ascending and after it descending
C28_Witness ==
    /\ type_id = "bool"
    /\ [engine |-> "sort", a |-> 0, b |-> 1, desc |-> FALSE, res |-> -1] \in queries
    /\ [engine |-> "sort", a |-> 0, b |-> 1, desc |-> TRUE, res |-> 1] \in queries

\* compare_cstr of search.c returned 0 for a null pointer and a pointer to ""
C28_WitnessNullString ==
    /\ type_id = "cstr"
    /\ [engine |-> "search", a |-> 0, b |-> 1, desc |-> TRUE, res |-> 0] \in queries

(***************************************************************************)
(* type_supported against the unknown-type code of the exec entry points   *)
(***************************************************************************)
\* the call that returned had a buffer, a count and an algorithm the engine knows
ValidCall ==
    /\ base # NULL
    /\ count > 0
    /\ type_id # NULL
    /\ algorithm_id # "notalgo"

\* C29: for every type id t and each engine, type_supported(t) = true implies
\* that the exec entry point of the engine, called with a valid buffer, key,
\* count and a valid algorithm, does not return the unknown-type code (-3 for
\* search, -2 for sort and shuffle).
C29_SupportedTypeRuns ==
    /\ (pc = "searched" /\ ValidCall /\ key # NULL
        /\ fossil_algorithm_search_type_supported(type_id)) => ret # -3
    /\ (pc = "sorted" /\ ValidCall
        /\ fossil_algorithm_sort_type_supported(type_id)) => ret # -2
    /\ (pc = "returned" /\ ValidCall
        /\ fossil_algorithm_shuffle_type_supported(type_id)) => ret # -2

\* fossil_algorithm_search_exec returned -3 on a hex buffer, although
\* fossil_algorithm_search_type_supported("hex") is true
C29_SupportedHexRejected ==
    /\ pc = "searched" /\ ValidCall /\ key # NULL
    /\ type_id = "hex" /\ algorithm_id = "linear"
    /\ fossil_algorithm_search_type_supported(type_id)
    /\ ret = -3

====
